---------------------------- MODULE Spec2Model ----------------------------
(***************************************************************************)
(* Verification model of the venice-ai-api-sdk-rust client library.        *)
(*                                                                         *)
(* Five components are modelled, each with its own specification:          *)
(*   SpecStream : the SSE decoder of http/response_processor.rs            *)
(*   SpecPager  : the cursor paginator of pagination.rs                    *)
(*   SpecRetry  : with_retry (retry.rs) and RetryMiddleware::process       *)
(*                (middleware/retry.rs)                                    *)
(*   SpecLimiter: the RateLimiter of rate_limit.rs, shared by tasks that   *)
(*                call it directly or through Client / RateLimiterMiddleware*)
(*   SpecClient : one call of Client (client.rs) from acquire to the       *)
(*                update of the rate limiter, with build_url (http/url.rs) *)
(*                and process_response (http/response_processor.rs)        *)
(* A specification moves the variables of its component and leaves the     *)
(* variables of the other components at their idle values.                 *)
(***************************************************************************)
EXTENDS Integers, Sequences, FiniteSets, TLC

VARIABLES
    \* ---- streaming decoder -------------------------------------------
    s_body,      \* the bytes of the HTTP response body (sequence of tokens)
    s_offset,    \* how many tokens the transport has delivered so far
    s_items,     \* the items the consumer has pulled from the stream
    s_aligned,   \* history: every read so far held whole lines and at most one data line
    s_done,      \* the stream has yielded None
    \* ---- paginator ---------------------------------------------------
    p_params,    \* PaginationParams {limit, cursor}
    p_has_more,  \* the paginator's has_more field
    p_limit0,    \* history: the limit given at construction
    p_pc,        \* "idle" or "all_pages" (inside the loop of all_pages)
    p_start,     \* history: number of fetches made before the current all_pages call
    fetch_log,   \* history: the params of every fetch_page invocation
    page_log,    \* history: the result of every fetch_page invocation
    all_items,   \* the local accumulator of all_pages
    ap_result,   \* what the last all_pages call returned
    np_result,   \* what the last next_page call returned
    \* ---- retry -------------------------------------------------------
    r_config,    \* RetryConfig
    r_impl,      \* "with_retry" or "middleware"
    attempt,     \* the loop's attempt counter
    outcomes,    \* history: the result of every invocation of the operation
    sleeps,      \* history: every delay slept, in milliseconds
    r_result,    \* what the retry loop returned, or pending
    \* ---- rate limiter ------------------------------------------------
    l_config,    \* RateLimiterConfig {auto_wait, max_wait_time}
    rate_limiter,\* the six atomics of the shared RateLimiter
    now,         \* the wall clock, in seconds
    l_infos,     \* the rate-limit snapshots that callers and responses carry
    tasks,       \* per task: where it is in its call, and the call's locals
    acq_log,     \* history: one record per acquire call
    upd_log,     \* history: one record per update_from_response call
    l_calls,     \* number of calls started so far
    l_ticks,     \* number of clock ticks left
    \* ---- client ------------------------------------------------------
    c_base,      \* ClientConfig.base_url, as tokens ("/" is a token of its own)
    c_endpoint,  \* the endpoint given to the call, as tokens
    c_config,    \* the client's rate_limiter and retry_config options
    c_limiter,   \* the six atomics of the client's RateLimiter
    c_limiter0,  \* history: c_limiter when the current call began
    c_now,       \* the wall clock, in seconds
    c_pc,        \* "idle", "send" (inside the call, before an attempt) or "done"
    c_attempt,   \* the attempt counter of with_retry
    c_url,       \* what build_url returned to the current call
    c_log,       \* history: the acquire, send and update events of the current call
    c_result,    \* what the current call returned, or pending
    c_calls      \* number of calls started so far

stream_vars == <<s_body, s_offset, s_items, s_aligned, s_done>>
pager_vars  == <<p_params, p_has_more, p_limit0, p_pc, p_start, fetch_log, page_log,
                 all_items, ap_result, np_result>>
retry_vars  == <<r_config, r_impl, attempt, outcomes, sleeps, r_result>>
limiter_vars == <<l_config, rate_limiter, now, l_infos, tasks, acq_log, upd_log, l_calls, l_ticks>>
client_vars == <<c_base, c_endpoint, c_config, c_limiter, c_limiter0, c_now, c_pc, c_attempt,
                 c_url, c_log, c_result, c_calls>>
vars        == <<stream_vars, pager_vars, retry_vars, limiter_vars, client_vars>>

None == "None"

\* Option<u32>: <<>> is None and <<n>> is Some(n).
NoLimit == <<>>

Min(a, b) == IF a <= b THEN a ELSE b

RECURSIVE Pow(_, _)
Pow(b, e) == IF e <= 0 THEN 1 ELSE b * Pow(b, e - 1)

Last(s) == s[Len(s)]

(***************************************************************************)
(*                         STREAMING DECODER                               *)
(*                                                                         *)
(* The body is a sequence of tokens.  The marker "data: " is the two       *)
(* tokens "da","ta: " so that the transport can cut a read inside it;      *)
(* "[DONE]" is the sentinel payload; "1" and "2" are digits, so that a     *)
(* payload is valid JSON (a number) exactly when it is a non-empty run of  *)
(* digits; "x" is text that is not JSON; "FF" is a byte that is not valid  *)
(* UTF-8; "\n" ends a line.                                                *)
(***************************************************************************)
MaxLines == 2

NL == "\n"
DataPrefix == <<"da", "ta: ">>
DoneMarker == <<"[DONE]">>
Digits == {"1", "2"}

LineSet ==
    { DataPrefix \o <<"1">>,                     \* data: 1
      DataPrefix \o <<"1", "2">>,                \* data: 12
      DataPrefix \o DoneMarker,                  \* data: [DONE]
      DataPrefix \o DataPrefix \o DoneMarker,    \* data: data: [DONE]
      DataPrefix \o DataPrefix \o <<"2">>,       \* data: data: 2
      DataPrefix \o <<"x">>,                     \* data: x   (not JSON)
      <<"x">>,                                   \* a line without the marker
      <<>>,                                      \* the blank line of SSE framing
      <<"FF">> }                                 \* bytes that are not UTF-8

RECURSIVE Bodies(_)
Bodies(n) ==
    IF n = 0 THEN { <<>> }
    ELSE LET shorter == Bodies(n - 1)
         IN  shorter \cup { b \o l \o <<NL>> : b \in shorter, l \in LineSet }

\* String::from_utf8(chunk.to_vec())
from_utf8_ok(chunk) == \A i \in 1..Len(chunk) : chunk[i] # "FF"

\* str::lines(): the text between line feeds, with the offset each line starts at;
\* a final line needs no line feed and an empty final piece is no line.
RECURSIVE LinesFrom(_, _, _, _)
LinesFrom(chunk, i, start, acc) ==
    IF i > Len(chunk)
    THEN IF start < i
         THEN Append(acc, [text |-> SubSeq(chunk, start, i - 1), start |-> start - 1])
         ELSE acc
    ELSE IF chunk[i] = NL
         THEN LinesFrom(chunk, i + 1, i + 1,
                        Append(acc, [text |-> SubSeq(chunk, start, i - 1), start |-> start - 1]))
         ELSE LinesFrom(chunk, i + 1, start, acc)

lines(chunk) == LinesFrom(chunk, 1, 1, <<>>)

\* str::starts_with
starts_with(line, pat) ==
    /\ Len(line) >= Len(pat)
    /\ SubSeq(line, 1, Len(pat)) = pat

\* str::trim_start_matches: removes the pattern from the front repeatedly.
RECURSIVE trim_start_matches(_, _)
trim_start_matches(line, pat) ==
    IF starts_with(line, pat)
    THEN trim_start_matches(SubSeq(line, Len(pat) + 1, Len(line)), pat)
    ELSE line

\* serde_json::from_str::<T>(data) for a numeric T: a non-empty run of digits
\* parses to its value, anything else is an error.
json_ok(data) == Len(data) > 0 /\ \A i \in 1..Len(data) : data[i] \in Digits

DigitValue(c) == IF c = "1" THEN 1 ELSE 2

RECURSIVE json_value(_)
json_value(data) ==
    IF Len(data) = 0 THEN 0
    ELSE 10 * json_value(SubSeq(data, 1, Len(data) - 1)) + DigitValue(data[Len(data)])

OkItem(v, at)     == [kind |-> "ok", val |-> v, at |-> at]
ErrItem(kind, at) == [kind |-> kind, val |-> 0, at |-> at]
NoItem            == [kind |-> "none", val |-> 0, at |-> 0]

\* The for loop of the and_then closure: `result` keeps the last parsed value,
\* a JSON error leaves the closure at once (the ? operator).
RECURSIVE for_lines(_, _, _, _)
for_lines(ls, i, base, result) ==
    IF i > Len(ls) THEN result
    ELSE LET line == ls[i].text
             at   == base + ls[i].start
         IN  IF starts_with(line, DataPrefix)
             THEN LET data == trim_start_matches(line, DataPrefix)
                  IN  IF data = DoneMarker
                      THEN for_lines(ls, i + 1, base, result)
                      ELSE IF json_ok(data)
                           THEN for_lines(ls, i + 1, base, OkItem(json_value(data), at))
                           ELSE ErrItem("parse_error", at)
             ELSE for_lines(ls, i + 1, base, result)

\* The and_then closure applied to one read that starts at offset `base`;
\* NoItem stands for the "No data found in chunk" error, which filter_map drops.
decode_chunk(chunk, base) ==
    IF ~from_utf8_ok(chunk)
    THEN ErrItem("utf8_error", base)
    ELSE for_lines(lines(chunk), 1, base, NoItem)

\* filter_map: every result but "No data found in chunk" reaches the consumer.
filter_map(items, r) == IF r.kind = "none" THEN items ELSE Append(items, r)

\* History: the read [from+1 .. from+n] of body starts at a line start, ends at a
\* line end and holds at most one line that starts with the marker.
IsDataLine(l) == starts_with(l.text, DataPrefix)

ReadIsAligned(body, from, n) ==
    LET chunk == SubSeq(body, from + 1, from + n)
        ls    == lines(chunk)
    IN  /\ from = 0 \/ body[from] = NL
        /\ chunk[n] = NL
        /\ Cardinality({ i \in 1..Len(ls) : IsDataLine(ls[i]) }) <= 1

InitStream ==
    /\ s_body \in Bodies(MaxLines)
    /\ s_offset = 0
    /\ s_items = <<>>
    /\ s_aligned = TRUE
    /\ s_done = FALSE

IdleStream ==
    /\ s_body = <<>>
    /\ s_offset = 0
    /\ s_items = <<>>
    /\ s_aligned = TRUE
    /\ s_done = TRUE

\* The consumer polls the stream and the transport delivers the next n bytes.
PollRead ==
    /\ ~s_done
    /\ \E n \in 1..(Len(s_body) - s_offset) :
         LET chunk == SubSeq(s_body, s_offset + 1, s_offset + n)
         IN  /\ s_items' = filter_map(s_items, decode_chunk(chunk, s_offset))
             /\ s_aligned' = (s_aligned /\ ReadIsAligned(s_body, s_offset, n))
             /\ s_offset' = s_offset + n
    /\ UNCHANGED <<s_body, s_done>>
    /\ UNCHANGED <<pager_vars, retry_vars, limiter_vars, client_vars>>

\* The consumer polls the stream and the transport fails: map_err makes the
\* reqwest error an HttpError item; the body yields nothing after it.
PollTransportError ==
    /\ ~s_done
    /\ s_offset < Len(s_body)
    /\ s_items' = Append(s_items, ErrItem("http_error", s_offset))
    /\ s_done' = TRUE
    /\ UNCHANGED <<s_body, s_offset, s_aligned>>
    /\ UNCHANGED <<pager_vars, retry_vars, limiter_vars, client_vars>>

\* The consumer polls the stream after the last byte: the stream ends.
PollEnd ==
    /\ ~s_done
    /\ s_offset = Len(s_body)
    /\ s_done' = TRUE
    /\ UNCHANGED <<s_body, s_offset, s_items, s_aligned>>
    /\ UNCHANGED <<pager_vars, retry_vars, limiter_vars, client_vars>>

NextStream == PollRead \/ PollTransportError \/ PollEnd

(***************************************************************************)
(*                              PAGINATOR                                  *)
(*                                                                         *)
(* GenericPaginator and AsyncGenericPaginator have the same fields and the *)
(* same next_page and all_pages bodies (the async one awaits fetch_page);  *)
(* one model stands for both.  fetch_page is the caller's function: each   *)
(* invocation returns any page or any error.                               *)
(***************************************************************************)
MaxFetches == 3

Cursors    == {"c1", "c2"}
PageData   == { <<>>, <<1>>, <<2, 3>> }
FetchErrors == {"e1", "e2"}

PageResponses ==
    [ok : {TRUE}, data : PageData, has_more : BOOLEAN,
     next_cursor : Cursors \cup {None}, err : {None}]
ErrResponses ==
    [ok : {FALSE}, data : {<<>>}, has_more : {FALSE}, next_cursor : {None}, err : FetchErrors]
Responses == PageResponses \cup ErrResponses

\* What next_page returns: Ok(None), Ok(Some(page)) or Err(error).
NoPage      == [tag |-> "none", data |-> <<>>, has_more |-> FALSE, next_cursor |-> None, err |-> None]
SomePage(r) == [tag |-> "page", data |-> r.data, has_more |-> r.has_more,
                next_cursor |-> r.next_cursor, err |-> None]
ErrPage(e)  == [tag |-> "err", data |-> <<>>, has_more |-> FALSE, next_cursor |-> None, err |-> e]
NotCalled   == [tag |-> "not_called", data |-> <<>>, has_more |-> FALSE, next_cursor |-> None, err |-> None]

\* What all_pages returns: Ok(items) or Err(error).
ApPending   == [tag |-> "pending", items |-> <<>>, err |-> None]
ApOk(items) == [tag |-> "ok", items |-> items, err |-> None]
ApErr(e)    == [tag |-> "err", items |-> <<>>, err |-> e]

\* Mutant: the else branch (no cursor => has_more = false) is missing.
update_state_no_else(params, resp) ==
    [ params   |-> IF resp.next_cursor # None
                   THEN [params EXCEPT !.cursor = resp.next_cursor] ELSE params,
      has_more |-> resp.has_more ]

\* Mutant: the cursor of the response is not carried into the next request.
update_state_keep_cursor(params, resp) ==
    [ params   |-> params,
      has_more |-> IF resp.next_cursor # None THEN resp.has_more ELSE FALSE ]

\* Mutant: a cursor in the response re-opens the paginator.
update_state_cursor_wins(params, resp) ==
    [ params   |-> IF resp.next_cursor # None
                   THEN [params EXCEPT !.cursor = resp.next_cursor] ELSE params,
      has_more |-> resp.next_cursor # None ]

\* Mutant: a page without next_cursor leaves has_more as the page gave it.
update_state_keeps_has_more(params, resp) ==
    [ params   |-> IF resp.next_cursor # None
                   THEN [params EXCEPT !.cursor = resp.next_cursor] ELSE params,
      has_more |-> resp.has_more ]

\* next_page, "Update the paginator state": has_more is the response's, the
\* cursor is replaced when the response has one, and without one has_more is
\* cleared.
update_state(params, resp) ==
    [ params   |-> IF resp.next_cursor # None
                   THEN [params EXCEPT !.cursor = resp.next_cursor] ELSE params,
      has_more |-> IF resp.next_cursor # None THEN resp.has_more ELSE FALSE ]

\* Mutant: a failed fetch makes the paginator terminal.
next_page_error_terminal(params, has_more, resp) ==
    IF ~has_more
    THEN [params |-> params, has_more |-> has_more, ret |-> NoPage, fetched |-> FALSE]
    ELSE IF ~resp.ok
         THEN [params |-> params, has_more |-> FALSE, ret |-> ErrPage(resp.err),
               fetched |-> TRUE]
         ELSE LET u == update_state(params, resp)
              IN  [params |-> u.params, has_more |-> u.has_more, ret |-> SomePage(resp),
                   fetched |-> TRUE]

\* next_page on a paginator (params, has_more) whose fetch_page would answer
\* resp: the new fields, the value returned and whether fetch_page was invoked.
next_page(params, has_more, resp) ==
    IF ~has_more
    THEN [params |-> params, has_more |-> has_more, ret |-> NoPage, fetched |-> FALSE]
    ELSE IF ~resp.ok
         THEN [params |-> params, has_more |-> has_more, ret |-> ErrPage(resp.err),
               fetched |-> TRUE]
         ELSE LET u == update_state(params, resp)
              IN  [params |-> u.params, has_more |-> u.has_more, ret |-> SomePage(resp),
                   fetched |-> TRUE]

\* Mutant: an error ends the loop like "no page": the items so far are returned.
all_pages_iter_partial(acc, ret) ==
    IF ret.tag = "err"  THEN [done |-> TRUE, acc |-> <<>>, result |-> ApOk(acc)]
    ELSE IF ret.tag = "none" THEN [done |-> TRUE, acc |-> <<>>, result |-> ApOk(acc)]
    ELSE IF ~ret.has_more
         THEN [done |-> TRUE, acc |-> <<>>, result |-> ApOk(acc \o ret.data)]
         ELSE [done |-> FALSE, acc |-> acc \o ret.data, result |-> ApPending]

\* Mutant: the items of a page are put in front of the accumulated ones.
all_pages_iter_prepend(acc, ret) ==
    IF ret.tag = "err"  THEN [done |-> TRUE, acc |-> <<>>, result |-> ApErr(ret.err)]
    ELSE IF ret.tag = "none" THEN [done |-> TRUE, acc |-> <<>>, result |-> ApOk(acc)]
    ELSE IF ~ret.has_more
         THEN [done |-> TRUE, acc |-> <<>>, result |-> ApOk(ret.data \o acc)]
         ELSE [done |-> FALSE, acc |-> ret.data \o acc, result |-> ApPending]

\* One turn of the while-let loop of all_pages, given what next_page returned:
\* ? returns the error (all_items is dropped), None ends the loop, a page is
\* appended and ends the loop when its has_more is false.
all_pages_iter(acc, ret) ==
    IF ret.tag = "err"  THEN [done |-> TRUE, acc |-> <<>>, result |-> ApErr(ret.err)]
    ELSE IF ret.tag = "none" THEN [done |-> TRUE, acc |-> <<>>, result |-> ApOk(acc)]
    ELSE IF ~ret.has_more
         THEN [done |-> TRUE, acc |-> <<>>, result |-> ApOk(acc \o ret.data)]
         ELSE [done |-> FALSE, acc |-> acc \o ret.data, result |-> ApPending]

InitPager ==
    /\ p_params \in [limit : {NoLimit, <<10>>}, cursor : {None, "c0"}]
    /\ p_limit0 = p_params.limit
    /\ p_has_more = TRUE
    /\ p_pc = "idle"
    /\ p_start = 0
    /\ fetch_log = <<>>
    /\ page_log = <<>>
    /\ all_items = <<>>
    /\ ap_result = ApPending
    /\ np_result = NotCalled

IdlePager ==
    /\ p_params = [limit |-> NoLimit, cursor |-> None]
    /\ p_limit0 = NoLimit
    /\ p_has_more = TRUE
    /\ p_pc = "idle"
    /\ p_start = 0
    /\ fetch_log = <<>>
    /\ page_log = <<>>
    /\ all_items = <<>>
    /\ ap_result = ApPending
    /\ np_result = NotCalled

\* The responses fetch_page may give to the next invocation; none when
\* next_page does not invoke it.
Answers == IF p_has_more THEN Responses ELSE { NoPage }

CanCall == ~p_has_more \/ Len(fetch_log) < MaxFetches

\* The caller calls next_page.
NextPage ==
    /\ p_pc = "idle"
    /\ CanCall
    /\ \E resp \in Answers :
         LET r == next_page(p_params, p_has_more, resp)
         IN  /\ p_params' = r.params
             /\ p_has_more' = r.has_more
             /\ np_result' = r.ret
             /\ fetch_log' = IF r.fetched THEN Append(fetch_log, p_params) ELSE fetch_log
             /\ page_log' = IF r.fetched THEN Append(page_log, resp) ELSE page_log
    /\ UNCHANGED <<p_limit0, p_pc, p_start, all_items, ap_result>>
    /\ UNCHANGED <<stream_vars, retry_vars, limiter_vars, client_vars>>

\* The caller calls all_pages: let mut all_items = Vec::new().
AllPagesStart ==
    /\ p_pc = "idle"
    /\ p_pc' = "all_pages"
    /\ all_items' = <<>>
    /\ ap_result' = ApPending
    /\ p_start' = Len(fetch_log)
    /\ UNCHANGED <<p_params, p_has_more, p_limit0, fetch_log, page_log, np_result>>
    /\ UNCHANGED <<stream_vars, retry_vars, limiter_vars, client_vars>>

\* One turn of the loop of all_pages: a next_page call and the loop body.
AllPagesIter ==
    /\ p_pc = "all_pages"
    /\ CanCall
    /\ \E resp \in Answers :
         LET r == next_page(p_params, p_has_more, resp)
             s == all_pages_iter(all_items, r.ret)
         IN  /\ p_params' = r.params
             /\ p_has_more' = r.has_more
             /\ np_result' = r.ret
             /\ fetch_log' = IF r.fetched THEN Append(fetch_log, p_params) ELSE fetch_log
             /\ page_log' = IF r.fetched THEN Append(page_log, resp) ELSE page_log
             /\ all_items' = s.acc
             /\ ap_result' = s.result
             /\ p_pc' = IF s.done THEN "idle" ELSE "all_pages"
    /\ UNCHANGED <<p_limit0, p_start>>
    /\ UNCHANGED <<stream_vars, retry_vars, limiter_vars, client_vars>>

NextPager == NextPage \/ AllPagesStart \/ AllPagesIter

(***************************************************************************)
(*                                RETRY                                    *)
(*                                                                         *)
(* with_retry (retry.rs) and RetryMiddleware::process (middleware/retry.rs)*)
(* run the same caller-supplied operation in a loop.  Every invocation of  *)
(* the operation returns Ok or any VeniceError.  Delays are milliseconds;  *)
(* backoff_factor is the rational backoff_num / backoff_den, and a float   *)
(* cast `as u64` is the integer part.                                      *)
(***************************************************************************)
MaxRetries == 3
JitterDen  == 4

\* rand::random::<f64>() in [0, 1) is draw / JitterDen.
JitterDraws == {0, 3}

RetryConfigs ==
    { [max_retries |-> m, initial_delay_ms |-> d.initial, max_delay_ms |-> d.max,
       backoff_num |-> d.num, backoff_den |-> d.den, add_jitter |-> j] :
         m \in 0..MaxRetries,
         d \in { [initial |-> 500, max |-> 10000, num |-> 2, den |-> 1],   \* RetryConfig::default
                 [initial |-> 1,   max |-> 10,    num |-> 1, den |-> 1],   \* the middleware tests
                 [initial |-> 3,   max |-> 10,    num |-> 3, den |-> 2] }, \* backoff_factor 1.5
         j \in BOOLEAN }

\* VeniceError, with the reqwest::StatusCode of an ApiError.
ApiStatuses == {400, 499, 500, 599, 600}
ErrorKinds  == {"HttpError", "RateLimitExceeded", "ParseError", "InvalidInput",
                "AuthenticationFailed", "InvalidWebhookSignature", "Unknown"}

\* The results of the id-th invocation of the operation.
OutcomesOf(id) ==
    { [ok |-> TRUE,  kind |-> "Ok", status |-> 0, id |-> id] }
    \cup { [ok |-> FALSE, kind |-> k, status |-> 0, id |-> id] : k \in ErrorKinds }
    \cup { [ok |-> FALSE, kind |-> "ApiError", status |-> st, id |-> id] : st \in ApiStatuses }

Pending == [ok |-> FALSE, kind |-> "pending", status |-> 0, id |-> 0]

\* Mutant: the server-error range starts at 400.
is_retryable_error_4xx(error) ==
    \/ error.kind = "HttpError"
    \/ error.kind = "RateLimitExceeded"
    \/ error.kind = "ApiError" /\ error.status >= 400 /\ error.status < 600

\* Mutant: a RateLimitExceeded is not retried.
is_retryable_error_no_rate_limit(error) ==
    \/ error.kind = "HttpError"
    \/ error.kind = "ApiError" /\ error.status >= 500 /\ error.status < 600

\* retry::is_retryable_error
is_retryable_error(error) ==
    \/ error.kind = "HttpError"
    \/ error.kind = "RateLimitExceeded"
    \/ error.kind = "ApiError" /\ error.status >= 500 /\ error.status < 600

\* RetryMiddleware::is_retryable
is_retryable(error) ==
    \/ error.kind = "HttpError"
    \/ error.kind = "RateLimitExceeded"
    \/ error.kind = "ApiError" /\ error.status >= 500 /\ error.status < 600

\* RetryConfig::calculate_delay(attempt); draw is the random number used
\* when add_jitter is set (jitter = 0.5 + draw / JitterDen).
calculate_delay(config, n, draw) ==
    LET base_delay == (config.initial_delay_ms * Pow(config.backoff_num, n))
                         \div Pow(config.backoff_den, n)
        delay      == Min(base_delay, config.max_delay_ms)
    IN  IF config.add_jitter
        THEN (delay * (JitterDen + 2 * draw)) \div (2 * JitterDen)
        ELSE delay

\* RetryMiddleware::calculate_delay(attempt): all in f64, cast at the end;
\* jitter = gen_range(0.0..0.5) is draw / (2 * JitterDen).
middleware_calculate_delay(config, n, draw) ==
    LET base_num == config.initial_delay_ms * Pow(config.backoff_num, n - 1)
        base_den == Pow(config.backoff_den, n - 1)
        capped   == base_num > config.max_delay_ms * base_den
        num      == IF capped THEN config.max_delay_ms ELSE base_num
        den      == IF capped THEN 1 ELSE base_den
    IN  IF config.add_jitter
        THEN (num * (2 * JitterDen + draw)) \div (den * 2 * JitterDen)
        ELSE num \div den

\* Mutant: the last allowed attempt is not made (>= instead of >).
with_retry_returns_off_by_one(config, n, error) ==
    n >= config.max_retries \/ ~is_retryable_error(error)

\* Mutant: the bound on the attempts is not checked.
with_retry_returns_unbounded(config, n, error) ==
    ~is_retryable_error(error)

\* Mutant: every error is retried while attempts are left.
with_retry_returns_retries_fatal(config, n, error) ==
    n > config.max_retries

\* with_retry, line 118: the error is returned rather than retried.
with_retry_returns(config, n, error) ==
    n > config.max_retries \/ ~is_retryable_error(error)

InitRetry ==
    /\ r_config \in RetryConfigs
    /\ r_impl \in {"with_retry", "middleware"}
    /\ attempt = 0
    /\ outcomes = <<>>
    /\ sleeps = <<>>
    /\ r_result = Pending

IdleRetry ==
    /\ r_config = [max_retries |-> 0, initial_delay_ms |-> 0, max_delay_ms |-> 0,
                   backoff_num |-> 1, backoff_den |-> 1, add_jitter |-> FALSE]
    /\ r_impl = "with_retry"
    /\ attempt = 0
    /\ outcomes = <<>>
    /\ sleeps = <<>>
    /\ r_result = [ok |-> FALSE, kind |-> "idle", status |-> 0, id |-> 0]

Draws == IF r_config.add_jitter THEN JitterDraws ELSE {0}

\* One turn of the loop of with_retry: f().await, then return or sleep.
WithRetryAttempt ==
    /\ r_impl = "with_retry"
    /\ r_result = Pending
    /\ \E o \in OutcomesOf(Len(outcomes) + 1) :
         /\ outcomes' = Append(outcomes, o)
         /\ IF o.ok
            THEN /\ r_result' = o
                 /\ UNCHANGED <<attempt, sleeps>>
            ELSE /\ attempt' = attempt + 1
                 /\ IF with_retry_returns(r_config, attempt + 1, o)
                    THEN /\ r_result' = o
                         /\ UNCHANGED sleeps
                    ELSE /\ \E draw \in Draws :
                              sleeps' = Append(sleeps, calculate_delay(r_config, attempt + 1, draw))
                         /\ UNCHANGED r_result
    /\ UNCHANGED <<r_config, r_impl>>
    /\ UNCHANGED <<stream_vars, pager_vars, limiter_vars, client_vars>>

\* One turn of the loop of RetryMiddleware::process: next.run, then return or sleep.
MiddlewareAttempt ==
    /\ r_impl = "middleware"
    /\ r_result = Pending
    /\ attempt' = attempt + 1
    /\ \E o \in OutcomesOf(Len(outcomes) + 1) :
         /\ outcomes' = Append(outcomes, o)
         /\ IF o.ok \/ attempt + 1 > r_config.max_retries
            THEN /\ r_result' = o
                 /\ UNCHANGED sleeps
            ELSE IF ~is_retryable(o)
                 THEN /\ r_result' = o
                      /\ UNCHANGED sleeps
                 ELSE /\ \E draw \in Draws :
                           sleeps' = Append(sleeps,
                                            middleware_calculate_delay(r_config, attempt + 1, draw))
                      /\ UNCHANGED r_result
    /\ UNCHANGED <<r_config, r_impl>>
    /\ UNCHANGED <<stream_vars, pager_vars, limiter_vars, client_vars>>

NextRetry == WithRetryAttempt \/ MiddlewareAttempt

(***************************************************************************)
(*                             RATE LIMITER                                *)
(*                                                                         *)
(* One RateLimiter is shared (Arc) by the tasks of a multi-threaded        *)
(* runtime.  A task calls update_from_response directly, or makes a client *)
(* call (Client::get and its siblings, RateLimiterMiddleware::process):    *)
(* acquire, then the request, then update_from_response when the request   *)
(* returned Ok.  Every atomic load and store is a step of its own, so the  *)
(* calls of different tasks interleave between any two of them.  The clock *)
(* is in seconds and lies after the Unix epoch; timestamps stay far inside *)
(* the range of i64.                                                       *)
(***************************************************************************)
MaxCalls   == 2
MaxTicks   == 2
StartClock == 3

Tasks == {"t1", "t2"}

\* DOMAIN tasks: the tasks that share the limiter.
Running == DOMAIN tasks

\* RateLimiterConfig; 60 is the default max_wait_time.
LimiterConfigs == [auto_wait : BOOLEAN, max_wait_time : {1, 60}]

\* The fields of RateLimitInfo that the limiter reads, and the atomic each
\* one is stored to, in the order of update_from_response.
SnapshotFields == <<"limit_requests", "remaining_requests", "reset_requests",
                    "limit_tokens", "remaining_tokens", "reset_tokens">>
LimiterFields  == <<"max_requests", "remaining_requests", "reset_time_requests",
                    "max_tokens", "remaining_tokens", "reset_time_tokens">>

\* RateLimitInfo: every field is an Option, <<>> is None and <<n>> is Some(n).
SnapA == [limit_requests |-> <<100>>, remaining_requests |-> <<50>>,
          reset_requests |-> <<StartClock + 2>>,
          limit_tokens |-> <<1000>>, remaining_tokens |-> <<500>>,
          reset_tokens |-> <<2>>]
SnapB == [limit_requests |-> <<200>>, remaining_requests |-> <<0>>,
          reset_requests |-> <<StartClock + 3>>,
          limit_tokens |-> <<2000>>, remaining_tokens |-> <<0>>,
          reset_tokens |-> <<1>>]

Masks == { {"limit_requests", "remaining_requests", "reset_requests",
            "limit_tokens", "remaining_tokens", "reset_tokens"},
           {},
           {"remaining_requests"},
           {"limit_requests", "remaining_requests", "reset_requests"},
           {"remaining_tokens", "reset_tokens"},
           {"limit_requests", "limit_tokens"} }

Masked(info, present) ==
    [f \in DOMAIN info |-> IF f \in present THEN info[f] ELSE <<>>]

Snapshots == { Masked(info, m) : info \in {SnapA, SnapB}, m \in Masks }

NoSnapshot == Masked(SnapA, {})

\* What is run against the limiter: one task with every snapshot while up to
\* MaxTicks seconds pass, or two concurrent tasks with the fully populated
\* snapshots within one second (the clock then moves only with a sleep).
Workloads == { [tasks |-> {"t1"}, infos |-> Snapshots,      ticks |-> MaxTicks],
               [tasks |-> Tasks,  infos |-> {SnapA, SnapB}, ticks |-> 0] }

\* RateLimiter::with_config
NewLimiter == [max_requests |-> 0, remaining_requests |-> 1, reset_time_requests |-> 0,
               max_tokens |-> 0, remaining_tokens |-> 1, reset_time_tokens |-> 0]

\* Option<u64> of time_until_reset; NotComputed marks a call that never got there.
NotComputed == <<0, 0>>

IdleTask == [pc |-> "idle", acq |-> 0, upd |-> 0, info |-> NoSnapshot, k |-> 0,
             t_now |-> 0, earliest |-> <<>>, wake_at |-> 0]

\* Mutant: a counter at its construction seed counts as used up.
exhausted_at_seed(remaining) == remaining <= 1

\* is_rate_limited: `load(..) == 0`, for either counter.
exhausted(remaining) == remaining = 0

\* Mutant: auto_wait is not consulted.
after_check_ignores_auto_wait(limited, config) ==
    IF ~limited THEN "Ok" ELSE "time_until_reset"

\* acquire, lines 187-195: what follows is_rate_limited.
after_check(limited, config) ==
    IF ~limited THEN "Ok"
    ELSE IF ~config.auto_wait THEN "RateLimitExceeded"
    ELSE "time_until_reset"

\* Mutant: a timestamp equal to now counts as in the future.
earliest_reset_inclusive(earliest, reset_time, t_now) ==
    IF reset_time >= t_now
    THEN IF earliest = <<>> THEN <<reset_time - t_now>>
         ELSE <<Min(earliest[1], reset_time - t_now)>>
    ELSE earliest

\* time_until_reset, lines 143-153: one timestamp folded into earliest_reset.
earliest_reset(earliest, reset_time, t_now) ==
    IF reset_time > t_now
    THEN IF earliest = <<>> THEN <<reset_time - t_now>>
         ELSE <<Min(earliest[1], reset_time - t_now)>>
    ELSE earliest

\* Mutant: the wait is not capped by max_wait_time.
wait_time_uncapped(time_until_reset, config) == time_until_reset[1]

\* acquire, line 198.
wait_time(time_until_reset, config) == Min(time_until_reset[1], config.max_wait_time)

\* Mutant: an absent field clears its atomic.
update_field_clears(limiter, k, info, t_now) ==
    IF info[SnapshotFields[k]] = <<>>
    THEN [limiter EXCEPT ![LimiterFields[k]] = 0]
    ELSE [limiter EXCEPT ![LimiterFields[k]] =
              IF k = 6 THEN t_now + info.reset_tokens[1] ELSE info[SnapshotFields[k]][1]]

\* update_from_response: the k-th `if let Some(..)` block.  reset_tokens is
\* seconds until the reset and is stored as now + reset_tokens.
update_field(limiter, k, info, t_now) ==
    IF info[SnapshotFields[k]] = <<>>
    THEN limiter
    ELSE [limiter EXCEPT ![LimiterFields[k]] =
              IF k = 6 THEN t_now + info.reset_tokens[1] ELSE info[SnapshotFields[k]][1]]

InitLimiter ==
    /\ l_config \in LimiterConfigs
    /\ rate_limiter = NewLimiter
    /\ now = StartClock
    /\ \E w \in Workloads :
         /\ l_infos = w.infos
         /\ tasks = [t \in w.tasks |-> IdleTask]
         /\ l_ticks = w.ticks
    /\ acq_log = <<>>
    /\ upd_log = <<>>
    /\ l_calls = 0

IdleLimiter ==
    /\ l_config = [auto_wait |-> TRUE, max_wait_time |-> 60]
    /\ rate_limiter = NewLimiter
    /\ now = StartClock
    /\ l_infos = {}
    /\ tasks = [t \in Tasks |-> IdleTask]
    /\ acq_log = <<>>
    /\ upd_log = <<>>
    /\ l_calls = MaxCalls
    /\ l_ticks = 0

\* Task t may start a call.  The tasks are interchangeable: t1 is the one that
\* starts first.
MayCall(t) ==
    /\ t \in Running
    /\ tasks[t].pc = "idle"
    /\ l_calls < MaxCalls
    /\ t = "t1" \/ l_calls > 0

\* The places of acquire at which the call has not decided yet.
LoadPcs == {"load_remaining_requests", "load_remaining_tokens", "read_clock",
            "load_reset_requests", "load_reset_tokens"}

Updating(t) == tasks[t].pc = "store"

\* History: an acquire that has not decided yet saw the limiter or the clock change.
Disturbed(log, changed) ==
    [i \in 1..Len(log) |->
        IF changed /\ log[i].result = "pending" /\ tasks[log[i].task].pc \in LoadPcs
        THEN [log[i] EXCEPT !.stable = FALSE]
        ELSE log[i]]

\* History: the unfinished update calls now overlap another call.
Overlapped(log) ==
    [i \in 1..Len(log) |->
        IF log[i].done THEN log[i] ELSE [log[i] EXCEPT !.overlapped = TRUE]]

\* update_from_response is entered by task t with the snapshot info.
BeginUpdate(t, info, task) ==
    /\ upd_log' = Append(Overlapped(upd_log),
                         [task |-> t, info |-> info, at |-> rate_limiter,
                          overlapped |-> \E u \in Running \ {t} : Updating(u),
                          done |-> FALSE, tok_now |-> 0, final |-> rate_limiter])
    /\ tasks' = [tasks EXCEPT ![t] =
                    [task EXCEPT !.pc = "store", !.upd = Len(upd_log) + 1,
                                 !.info = info, !.k = 1]]

\* A task calls update_from_response directly.
UpdateCall(t) ==
    /\ MayCall(t)
    /\ l_calls' = l_calls + 1
    /\ \E info \in l_infos : BeginUpdate(t, info, tasks[t])
    /\ UNCHANGED <<l_config, l_infos, rate_limiter, now, acq_log, l_ticks>>
    /\ UNCHANGED <<stream_vars, pager_vars, retry_vars, client_vars>>

\* update_from_response: the k-th block; the call returns after the sixth.
UpdateStore(t) ==
    LET task == tasks[t]
        k    == task.k
        new  == update_field(rate_limiter, k, task.info, now)
    IN  /\ t \in Running
        /\ task.pc = "store"
        /\ rate_limiter' = new
        /\ acq_log' = Disturbed(acq_log, new # rate_limiter)
        /\ upd_log' = [upd_log EXCEPT ![task.upd] =
                          [@ EXCEPT !.done = (k = 6),
                                    !.final = new,
                                    !.tok_now = IF k = 6 THEN now ELSE @]]
        /\ tasks' = [tasks EXCEPT ![t] =
                        IF k = 6 THEN IdleTask ELSE [task EXCEPT !.k = k + 1]]
        /\ UNCHANGED <<l_config, l_infos, now, l_calls, l_ticks>>
        /\ UNCHANGED <<stream_vars, pager_vars, retry_vars, client_vars>>

\* Client::get (and its siblings, and RateLimiterMiddleware::process) is
\* entered: the call begins with rate_limiter.acquire().
ClientCall(t) ==
    /\ MayCall(t)
    /\ l_calls' = l_calls + 1
    /\ acq_log' = Append(acq_log,
                         [task |-> t, at |-> rate_limiter, at_now |-> now, stable |-> TRUE,
                          time_until_reset |-> NotComputed, slept |-> 0,
                          result |-> "pending", ret_now |-> 0, sent |-> FALSE])
    /\ tasks' = [tasks EXCEPT ![t] =
                    [IdleTask EXCEPT !.pc = "load_remaining_requests",
                                     !.acq = Len(acq_log) + 1]]
    /\ UNCHANGED <<l_config, l_infos, rate_limiter, now, upd_log, l_ticks>>
    /\ UNCHANGED <<stream_vars, pager_vars, retry_vars, client_vars>>

\* acquire returns to the client call, which goes on (Ok) or returns the error (`?`).
AcquireReturns(t, task, result, tur, slept) ==
    /\ acq_log' = [acq_log EXCEPT ![task.acq] =
                      [@ EXCEPT !.result = result, !.time_until_reset = tur,
                                !.slept = slept, !.ret_now = now]]
    /\ tasks' = [tasks EXCEPT ![t] =
                    IF result = "Ok" THEN [task EXCEPT !.pc = "send"] ELSE IdleTask]

\* acquire, after is_rate_limited has its answer.
AfterCheck(t, task, limited) ==
    LET to == after_check(limited, l_config)
    IN  IF to = "time_until_reset"
        THEN /\ tasks' = [tasks EXCEPT ![t] = [task EXCEPT !.pc = "read_clock"]]
             /\ UNCHANGED acq_log
        ELSE AcquireReturns(t, task, to, NotComputed, 0)

\* Mutant: the load takes one request off the counter (a local decrement).
LoadRemainingRequests_decrements(t) ==
    LET task == tasks[t]
    IN  /\ t \in Running
        /\ task.pc = "load_remaining_requests"
        /\ IF exhausted(rate_limiter.remaining_requests)
           THEN /\ AfterCheck(t, task, TRUE)
                /\ UNCHANGED rate_limiter
           ELSE /\ tasks' = [tasks EXCEPT ![t] = [task EXCEPT !.pc = "load_remaining_tokens"]]
                /\ rate_limiter' = [rate_limiter EXCEPT !.remaining_requests = @ - 1]
                /\ UNCHANGED acq_log
        /\ UNCHANGED <<l_config, l_infos, now, upd_log, l_calls, l_ticks>>
        /\ UNCHANGED <<stream_vars, pager_vars, retry_vars, client_vars>>

\* is_rate_limited: the load of remaining_requests; `||` skips the second load.
LoadRemainingRequests(t) ==
    LET task == tasks[t]
    IN  /\ t \in Running
        /\ task.pc = "load_remaining_requests"
        /\ IF exhausted(rate_limiter.remaining_requests)
           THEN AfterCheck(t, task, TRUE)
           ELSE /\ tasks' = [tasks EXCEPT ![t] = [task EXCEPT !.pc = "load_remaining_tokens"]]
                /\ UNCHANGED acq_log
        /\ UNCHANGED <<l_config, l_infos, rate_limiter, now, upd_log, l_calls, l_ticks>>
        /\ UNCHANGED <<stream_vars, pager_vars, retry_vars, client_vars>>

\* is_rate_limited: the load of remaining_tokens.
LoadRemainingTokens(t) ==
    LET task == tasks[t]
    IN  /\ t \in Running
        /\ task.pc = "load_remaining_tokens"
        /\ AfterCheck(t, task, exhausted(rate_limiter.remaining_tokens))
        /\ UNCHANGED <<l_config, l_infos, rate_limiter, now, upd_log, l_calls, l_ticks>>
        /\ UNCHANGED <<stream_vars, pager_vars, retry_vars, client_vars>>

\* time_until_reset: SystemTime::now().
ReadClock(t) ==
    LET task == tasks[t]
    IN  /\ t \in Running
        /\ task.pc = "read_clock"
        /\ tasks' = [tasks EXCEPT ![t] =
                        [task EXCEPT !.pc = "load_reset_requests", !.t_now = now,
                                     !.earliest = <<>>]]
        /\ UNCHANGED <<l_config, l_infos, rate_limiter, now, acq_log, upd_log, l_calls, l_ticks>>
        /\ UNCHANGED <<stream_vars, pager_vars, retry_vars, client_vars>>

\* time_until_reset: the load of reset_time_requests.
LoadResetRequests(t) ==
    LET task == tasks[t]
    IN  /\ t \in Running
        /\ task.pc = "load_reset_requests"
        /\ tasks' = [tasks EXCEPT ![t] =
                        [task EXCEPT !.pc = "load_reset_tokens",
                                     !.earliest = earliest_reset(<<>>,
                                                     rate_limiter.reset_time_requests,
                                                     task.t_now)]]
        /\ UNCHANGED <<l_config, l_infos, rate_limiter, now, acq_log, upd_log, l_calls, l_ticks>>
        /\ UNCHANGED <<stream_vars, pager_vars, retry_vars, client_vars>>

\* time_until_reset: the load of reset_time_tokens; then acquire, lines 197-210,
\* up to the sleep.
LoadResetTokens(t) ==
    LET task == tasks[t]
        tur  == earliest_reset(task.earliest, rate_limiter.reset_time_tokens, task.t_now)
    IN  /\ t \in Running
        /\ task.pc = "load_reset_tokens"
        /\ IF tur = <<>>
           THEN AcquireReturns(t, task, "RateLimitExceeded", tur, 0)
           ELSE IF wait_time(tur, l_config) > 0
                THEN /\ acq_log' = [acq_log EXCEPT ![task.acq] =
                                       [@ EXCEPT !.time_until_reset = tur,
                                                 !.slept = wait_time(tur, l_config)]]
                     /\ tasks' = [tasks EXCEPT ![t] =
                                     [task EXCEPT !.pc = "sleeping",
                                                  !.wake_at = now + wait_time(tur, l_config)]]
                ELSE AcquireReturns(t, task, "Ok", tur, 0)
        /\ UNCHANGED <<l_config, l_infos, rate_limiter, now, upd_log, l_calls, l_ticks>>
        /\ UNCHANGED <<stream_vars, pager_vars, retry_vars, client_vars>>

\* The sleep of acquire is over: the clock has reached the wake-up time, and
\* acquire returns Ok.
Wake(t) ==
    LET task == tasks[t]
        woke == IF now >= task.wake_at THEN now ELSE task.wake_at
    IN  /\ t \in Running
        /\ task.pc = "sleeping"
        /\ now' = woke
        /\ acq_log' = [Disturbed(acq_log, woke # now) EXCEPT ![task.acq] =
                          [@ EXCEPT !.result = "Ok", !.ret_now = woke]]
        /\ tasks' = [tasks EXCEPT ![t] = [task EXCEPT !.pc = "send"]]
        /\ UNCHANGED <<l_config, l_infos, rate_limiter, upd_log, l_calls, l_ticks>>
        /\ UNCHANGED <<stream_vars, pager_vars, retry_vars, client_vars>>

\* The request is sent and answered with Ok((_, rate_limit_info)): the client
\* call ends with update_from_response.
SendOk(t) ==
    LET task == tasks[t]
    IN  /\ t \in Running
        /\ task.pc = "send"
        /\ acq_log' = [acq_log EXCEPT ![task.acq] = [@ EXCEPT !.sent = TRUE]]
        /\ \E info \in l_infos : BeginUpdate(t, info, task)
        /\ UNCHANGED <<l_config, l_infos, rate_limiter, now, l_calls, l_ticks>>
        /\ UNCHANGED <<stream_vars, pager_vars, retry_vars, client_vars>>

\* The request is sent and fails: the client call returns the error.
SendErr(t) ==
    LET task == tasks[t]
    IN  /\ t \in Running
        /\ task.pc = "send"
        /\ acq_log' = [acq_log EXCEPT ![task.acq] = [@ EXCEPT !.sent = TRUE]]
        /\ tasks' = [tasks EXCEPT ![t] = IdleTask]
        /\ UNCHANGED <<l_config, l_infos, rate_limiter, now, upd_log, l_calls, l_ticks>>
        /\ UNCHANGED <<stream_vars, pager_vars, retry_vars, client_vars>>

\* A second passes.
Tick ==
    /\ l_ticks > 0
    /\ l_ticks' = l_ticks - 1
    /\ now' = now + 1
    /\ acq_log' = Disturbed(acq_log, TRUE)
    /\ UNCHANGED <<l_config, l_infos, rate_limiter, tasks, upd_log, l_calls>>
    /\ UNCHANGED <<stream_vars, pager_vars, retry_vars, client_vars>>

NextLimiter ==
    \/ \E t \in Tasks : UpdateCall(t)
    \/ \E t \in Tasks : UpdateStore(t)
    \/ \E t \in Tasks : ClientCall(t)
    \/ \E t \in Tasks : LoadRemainingRequests(t)
    \/ \E t \in Tasks : LoadRemainingTokens(t)
    \/ \E t \in Tasks : ReadClock(t)
    \/ \E t \in Tasks : LoadResetRequests(t)
    \/ \E t \in Tasks : LoadResetTokens(t)
    \/ \E t \in Tasks : Wake(t)
    \/ \E t \in Tasks : SendOk(t)
    \/ \E t \in Tasks : SendErr(t)
    \/ Tick

(***************************************************************************)
(*                               CLIENT                                    *)
(*                                                                         *)
(* One Client (client.rs) used by one caller: a call acquires from the     *)
(* rate limiter, builds the URL, sends the request (inside with_retry when *)
(* a retry configuration is set), turns each HTTP response into a result   *)
(* (http/response_processor.rs) and updates the rate limiter.  get,        *)
(* get_with_query, post, delete and post_streaming have this one shape.    *)
(* How long with_retry sleeps between attempts is the retry component's    *)
(* matter and is left out here.                                            *)
(***************************************************************************)
MaxClientCalls == 2

Bases == { <<"https:", "/", "/", "api.example.com", "/", "v1">>,
           <<"https:", "/", "/", "api.example.com", "/", "v1", "/">>,
           <<"https:", "/", "/", "api.example.com">>,
           <<"https:", "/", "/", "api.example.com", "/">>,
           <<"api.example.com", "/", "v1">> }

Endpoints == { <<"models">>, <<"/", "models">>,
               <<"chat", "/", "completions">>, <<"/", "chat", "/", "completions">> }

DefaultBase == <<"https:", "/", "/", "api.example.com", "/", "v1">>
DefaultEndpoint == <<"models">>

\* Client.rate_limiter and Client.retry_config (Option: <<>> is None); the
\* limiter's own configuration; max_retries is all with_retry's loop reads.
ClientConfigs ==
    [ rate_limiter : BOOLEAN,
      limiter_config : LimiterConfigs,
      retry_config : { <<>>, <<[max_retries |-> 0]>>, <<[max_retries |-> 2]>> } ]

\* Client::new: neither option is set.
DefaultClient ==
    [rate_limiter |-> FALSE, limiter_config |-> [auto_wait |-> TRUE, max_wait_time |-> 60],
     retry_config |-> <<>>]

\* The decimal numbers that occur as header values.
Decimal == ("0" :> 0) @@ ("2" :> 2) @@ ("5" :> 5) @@ ("50" :> 50) @@ ("100" :> 100)
           @@ ("500" :> 500) @@ ("1000" :> 1000)

\* The x-ratelimit-* headers of a response, by the name of the field each one
\* fills (<<>>: the header is absent).
NoHeaders == [f \in {SnapshotFields[k] : k \in 1..6} |-> <<>>]

HdrFull == [limit_requests |-> <<"100">>, remaining_requests |-> <<"50">>,
            reset_requests |-> <<"5">>, limit_tokens |-> <<"1000">>,
            remaining_tokens |-> <<"500">>, reset_tokens |-> <<"2">>]

HdrSpent == [NoHeaders EXCEPT !.remaining_requests = <<"0">>, !.reset_requests = <<"5">>]

HdrGarbled == [NoHeaders EXCEPT !.remaining_requests = <<"soon">>, !.limit_requests = <<"100">>]

\* What one attempt meets: no response at all (connection failure, timeout),
\* or a response with its status, headers and whether its body parses as T.
NoResponse == [sent |-> FALSE, status |-> 0, headers |-> NoHeaders, body_ok |-> FALSE]

Replies ==
    { NoResponse }
    \cup { [sent |-> TRUE, status |-> 200, headers |-> h, body_ok |-> TRUE] :
             h \in {HdrFull, HdrSpent} }
    \cup { [sent |-> TRUE, status |-> 200, headers |-> HdrFull, body_ok |-> FALSE] }
    \cup { [sent |-> TRUE, status |-> 429, headers |-> h, body_ok |-> FALSE] :
             h \in {HdrSpent, NoHeaders} }
    \cup { [sent |-> TRUE, status |-> 500, headers |-> HdrFull, body_ok |-> FALSE],
           [sent |-> TRUE, status |-> 404, headers |-> HdrGarbled, body_ok |-> FALSE] }

\* VeniceResult<(T, RateLimitInfo)>: info is <<snapshot>> in Ok((_, snapshot))
\* and <<>> in Err(_), which has no snapshot; text is what the error message
\* was formatted from.
ResultOk(info) == [ok |-> TRUE, kind |-> "Ok", status |-> 0, info |-> <<info>>, text |-> <<>>]
ResultErr(kind, status, text) ==
    [ok |-> FALSE, kind |-> kind, status |-> status, info |-> <<>>, text |-> text]
ResultPending == [ok |-> FALSE, kind |-> "pending", status |-> 0, info |-> <<>>, text |-> <<>>]

\* str::ends_with('/') and str::starts_with('/')
ends_with_slash(s) == Len(s) > 0 /\ s[Len(s)] = "/"
starts_with_slash(s) == Len(s) > 0 /\ s[1] = "/"

\* Url::parse: an absolute https URL with a host is accepted (and given the
\* path "/" when it has none); a string without a scheme is refused.
Url_parse(s) ==
    IF Len(s) >= 4 /\ s[1] = "https:" /\ s[2] = "/" /\ s[3] = "/" /\ s[4] # "/"
    THEN [ok |-> TRUE, url |-> IF Len(s) = 4 THEN s \o <<"/">> ELSE s]
    ELSE [ok |-> FALSE, url |-> s]

\* build_url
build_url(base_url, endpoint) ==
    LET url_str == IF ~ends_with_slash(base_url) /\ ~starts_with_slash(endpoint)
                   THEN base_url \o <<"/">> \o endpoint
                   ELSE base_url \o endpoint
    IN  Url_parse(url_str)

\* parse_header of RateLimitInfo::from_headers: the header's value as a number.
parse_header(value) ==
    IF value # <<>> /\ value[1] \in DOMAIN Decimal THEN <<Decimal[value[1]]>> ELSE <<>>

\* RateLimitInfo::from_headers
from_headers(headers) == [f \in DOMAIN headers |-> parse_header(headers[f])]

unwrap_or(option, default) == IF option = <<>> THEN default ELSE option[1]

\* impl Display for RateLimitInfo: the four numbers of the text.
Display(info) ==
    << unwrap_or(info.remaining_requests, 0), unwrap_or(info.limit_requests, 0),
       unwrap_or(info.remaining_tokens, 0), unwrap_or(info.limit_tokens, 0) >>

\* process_response (process_binary_response and process_streaming_response
\* begin alike): the snapshot is read from the headers, formatted into the
\* message of RateLimitExceeded, and returned only with the parsed body.
process_response(response) ==
    LET rate_limit_info == from_headers(response.headers)
    IN  IF response.status = 429
        THEN ResultErr("RateLimitExceeded", 429, Display(rate_limit_info))
        ELSE IF response.status < 200 \/ response.status > 299
             THEN ResultErr("ApiError", response.status, <<>>)
             ELSE IF response.body_ok THEN ResultOk(rate_limit_info)
                  ELSE ResultErr("ParseError", 0, <<>>)

\* One attempt: send().await.map_err(VeniceError::HttpError)?, then process_response.
send_request(reply) ==
    IF ~reply.sent THEN ResultErr("HttpError", 0, <<>>) ELSE process_response(reply)

\* RateLimiter::acquire, run without interruption: its result and the seconds
\* it sleeps.
acquire(limiter, config, t_now) ==
    LET limited == exhausted(limiter.remaining_requests) \/ exhausted(limiter.remaining_tokens)
        to      == after_check(limited, config)
        tur     == earliest_reset(earliest_reset(<<>>, limiter.reset_time_requests, t_now),
                                  limiter.reset_time_tokens, t_now)
    IN  IF to # "time_until_reset" THEN [result |-> to, slept |-> 0]
        ELSE IF tur = <<>> THEN [result |-> "RateLimitExceeded", slept |-> 0]
        ELSE [result |-> "Ok", slept |-> wait_time(tur, config)]

\* RateLimiter::update_from_response, run without interruption: the first k blocks.
RECURSIVE update_from_response_to(_, _, _, _)
update_from_response_to(limiter, k, info, t_now) ==
    IF k = 0 THEN limiter
    ELSE update_field(update_from_response_to(limiter, k - 1, info, t_now), k, info, t_now)

update_from_response(limiter, info, t_now) == update_from_response_to(limiter, 6, info, t_now)

\* Mutant: a failed call puts the limiter back to its construction values.
after_request_resets(limiter, result, t_now) ==
    IF result.ok THEN update_from_response(limiter, result.info[1], t_now) ELSE NewLimiter

\* Client::get, lines 144-149: `if let Ok((_, ref rate_limit_info)) = result`.
after_request(limiter, result, t_now) ==
    IF result.ok THEN update_from_response(limiter, result.info[1], t_now) ELSE limiter

\* The events a call leaves in c_log.
AcquireEvent == [ev |-> "acquire", reply |-> NoResponse, result |-> ResultPending,
                 info |-> NoSnapshot]
SendEvent(reply, result) == [ev |-> "send", reply |-> reply, result |-> result,
                             info |-> NoSnapshot]
UpdateEvent(info) == [ev |-> "update", reply |-> NoResponse, result |-> ResultPending,
                      info |-> info]

NoUrl == [ok |-> FALSE, url |-> <<>>]

\* What is run: every base URL and endpoint on a client without options, or
\* every choice of options on one URL.
ClientWorkloads ==
    (Bases \X Endpoints \X {DefaultClient})
    \cup ({DefaultBase} \X {DefaultEndpoint} \X ClientConfigs)

InitClient ==
    /\ \E w \in ClientWorkloads :
          c_base = w[1] /\ c_endpoint = w[2] /\ c_config = w[3]
    /\ c_limiter = NewLimiter
    /\ c_limiter0 = NewLimiter
    /\ c_now = StartClock
    /\ c_pc = "idle"
    /\ c_attempt = 0
    /\ c_url = NoUrl
    /\ c_log = <<>>
    /\ c_result = ResultPending
    /\ c_calls = 0

IdleClient ==
    /\ c_base = DefaultBase
    /\ c_endpoint = DefaultEndpoint
    /\ c_config = DefaultClient
    /\ c_limiter = NewLimiter
    /\ c_limiter0 = NewLimiter
    /\ c_now = StartClock
    /\ c_pc = "idle"
    /\ c_attempt = 0
    /\ c_url = NoUrl
    /\ c_log = <<>>
    /\ c_result = ResultPending
    /\ c_calls = MaxClientCalls

\* The call returns result: the limiter is updated from an Ok result.
ClientReturns(result, log) ==
    /\ c_result' = result
    /\ c_pc' = "done"
    /\ c_limiter' = IF c_config.rate_limiter
                    THEN after_request(c_limiter, result, c_now) ELSE c_limiter
    /\ c_log' = IF c_config.rate_limiter /\ result.ok
                THEN Append(log, UpdateEvent(result.info[1])) ELSE log

\* Client::get is called: acquire()? and build_url()?, up to the first attempt.
ClientGet ==
    /\ c_pc \in {"idle", "done"}
    /\ c_calls < MaxClientCalls
    /\ c_calls' = c_calls + 1
    /\ c_limiter0' = c_limiter
    /\ c_attempt' = 0
    /\ LET a   == IF c_config.rate_limiter
                  THEN acquire(c_limiter, c_config.limiter_config, c_now)
                  ELSE [result |-> "Ok", slept |-> 0]
           url == build_url(c_base, c_endpoint)
           log == IF c_config.rate_limiter THEN <<AcquireEvent>> ELSE <<>>
       IN  /\ c_now' = c_now + a.slept
           /\ c_log' = log
           /\ IF a.result # "Ok"
              THEN /\ c_result' = ResultErr("RateLimitExceeded", 0, <<>>)
                   /\ c_pc' = "done"
                   /\ c_url' = NoUrl
              ELSE /\ c_url' = url
                   /\ c_result' = IF url.ok THEN ResultPending
                                  ELSE ResultErr("InvalidInput", 0, <<>>)
                   /\ c_pc' = IF url.ok THEN "send" ELSE "done"
    /\ UNCHANGED <<c_base, c_endpoint, c_config, c_limiter>>
    /\ UNCHANGED <<stream_vars, pager_vars, retry_vars, limiter_vars>>

\* Mutant: acquire is called again before each retry.
ClientSend_reacquires ==
    /\ c_pc = "send"
    /\ \E reply \in Replies :
         LET result == send_request(reply)
             log    == Append(c_log, SendEvent(reply, result))
         IN  IF c_config.retry_config = <<>> \/ result.ok
             THEN ClientReturns(result, log) /\ UNCHANGED c_attempt
             ELSE /\ c_attempt' = c_attempt + 1
                  /\ IF with_retry_returns(c_config.retry_config[1], c_attempt + 1, result)
                     THEN ClientReturns(result, log)
                     ELSE /\ c_log' = IF c_config.rate_limiter
                                      THEN Append(log, AcquireEvent) ELSE log
                          /\ UNCHANGED <<c_result, c_pc, c_limiter>>
    /\ UNCHANGED <<c_base, c_endpoint, c_config, c_limiter0, c_now, c_url, c_calls>>
    /\ UNCHANGED <<stream_vars, pager_vars, retry_vars, limiter_vars>>

\* One attempt of the call: the request is sent and its response processed;
\* without a retry configuration the call returns the result, with one it goes
\* through one turn of with_retry.
ClientSend ==
    /\ c_pc = "send"
    /\ \E reply \in Replies :
         LET result == send_request(reply)
             log    == Append(c_log, SendEvent(reply, result))
         IN  IF c_config.retry_config = <<>> \/ result.ok
             THEN ClientReturns(result, log) /\ UNCHANGED c_attempt
             ELSE /\ c_attempt' = c_attempt + 1
                  /\ IF with_retry_returns(c_config.retry_config[1], c_attempt + 1, result)
                     THEN ClientReturns(result, log)
                     ELSE /\ c_log' = log
                          /\ UNCHANGED <<c_result, c_pc, c_limiter>>
    /\ UNCHANGED <<c_base, c_endpoint, c_config, c_limiter0, c_now, c_url, c_calls>>
    /\ UNCHANGED <<stream_vars, pager_vars, retry_vars, limiter_vars>>

NextClient == ClientGet \/ ClientSend

(***************************************************************************)
(*                           SPECIFICATIONS                                *)
(***************************************************************************)
StreamInit == InitStream /\ IdlePager /\ IdleRetry /\ IdleLimiter /\ IdleClient
SpecStream == StreamInit /\ [][NextStream]_vars

PagerInit == IdleStream /\ InitPager /\ IdleRetry /\ IdleLimiter /\ IdleClient
SpecPager == PagerInit /\ [][NextPager]_vars

RetryInit == IdleStream /\ IdlePager /\ InitRetry /\ IdleLimiter /\ IdleClient
SpecRetry == RetryInit /\ [][NextRetry]_vars

LimiterInit == IdleStream /\ IdlePager /\ IdleRetry /\ InitLimiter /\ IdleClient
SpecLimiter == LimiterInit /\ [][NextLimiter]_vars

ClientInit == IdleStream /\ IdlePager /\ IdleRetry /\ IdleLimiter /\ InitClient
SpecClient == ClientInit /\ [][NextClient]_vars

(***************************************************************************)
(*                     CLAIMS: STREAMING DECODER                           *)
(***************************************************************************)
\* The bytes delivered so far, and their lines.
Delivered == SubSeq(s_body, 1, s_offset)

SentinelLine == DataPrefix \o DoneMarker

\* A data line that is not the sentinel line "data: [DONE]".
IsPayloadLine(l) == starts_with(l.text, DataPrefix) /\ l.text # SentinelLine

\* A data line that the decoder does not take for the end-of-stream marker.
IsDecodedLine(l) ==
    starts_with(l.text, DataPrefix) /\ trim_start_matches(l.text, DataPrefix) # DoneMarker

RECURSIVE StartsOf(_)
StartsOf(ls) == IF ls = <<>> THEN <<>> ELSE <<ls[1].start>> \o StartsOf(Tail(ls))

RECURSIVE SourcesOf(_)
SourcesOf(items) ==
    IF items = <<>> THEN <<>> ELSE <<items[1].at>> \o SourcesOf(Tail(items))

\* A run whose bytes so far were valid UTF-8 and whose transport did not fail.
CleanRun ==
    /\ from_utf8_ok(Delivered)
    /\ \A i \in 1..Len(s_items) : s_items[i].kind # "http_error"

\* C1: when every data line arrives in a read of its own, the items pulled so
\* far are, in order, one per data line other than "data: [DONE]" received so
\* far: none is missing, none is duplicated.
C1_OneItemPerDataLine ==
    (s_aligned /\ CleanRun) =>
        SourcesOf(s_items) = StartsOf(SelectSeq(lines(Delivered), IsPayloadLine))

\* Supporting lemma for C1: the same holds of the data lines whose payload,
\* with every leading marker removed, is not [DONE].
Lemma_OneItemPerDecodedLine ==
    (s_aligned /\ CleanRun) =>
        SourcesOf(s_items) = StartsOf(SelectSeq(lines(Delivered), IsDecodedLine))

\* What a data line decodes to: the JSON value of the text after the marker,
\* or a parse error.
ExpectedItem(l) ==
    LET data == SubSeq(l.text, Len(DataPrefix) + 1, Len(l.text))
    IN  IF json_ok(data) THEN OkItem(json_value(data), l.start)
        ELSE ErrItem("parse_error", l.start)

RECURSIVE ExpectedItems(_, _)
ExpectedItems(ls, i) ==
    IF i > Len(ls) THEN <<>>
    ELSE (IF IsPayloadLine(ls[i]) THEN <<ExpectedItem(ls[i])>> ELSE <<>>)
         \o ExpectedItems(ls, i + 1)

\* C2: however the transport cuts the body into reads, once the whole body has
\* been read the items are the decoded data lines of the body, one each, in
\* order.
\* (Stated for the bodies whose data lines carry the marker once.)
MarkerOnce ==
    \A i \in 1..Len(lines(s_body)) :
        LET t == lines(s_body)[i].text
        IN  starts_with(t, DataPrefix) =>
                ~starts_with(SubSeq(t, Len(DataPrefix) + 1, Len(t)), DataPrefix)

C2_ItemsIndependentOfReads ==
    (s_offset = Len(s_body) /\ CleanRun /\ MarkerOnce) =>
        s_items = ExpectedItems(lines(s_body), 1)

(***************************************************************************)
(*                          CLAIMS: PAGINATOR                              *)
(***************************************************************************)
\* all_pages has been called (and is running or has returned).
AllPagesCalled == p_pc = "all_pages" \/ ap_result.tag # "pending"

\* The page has more and names the cursor of the next one.
IsLinkedPage(r) == r.ok /\ r.has_more /\ r.next_cursor # None

RECURSIVE ConcatData(_, _, _)
ConcatData(log, lo, hi) ==
    IF lo > hi THEN <<>> ELSE log[lo].data \o ConcatData(log, lo + 1, hi)

SeenPageWithoutCursor ==
    \E i \in 1..Len(page_log) :
        page_log[i].ok /\ page_log[i].has_more /\ page_log[i].next_cursor = None

\* C3: after a page with has_more = true and no next_cursor the paginator is
\* terminal: fetch_page is not invoked again, a next_page call returns no page,
\* and a running all_pages returns with its next turn.
C3_NoCursorIsTerminal ==
    [][ SeenPageWithoutCursor =>
          /\ fetch_log' = fetch_log
          /\ page_log' = page_log
          /\ np_result' # np_result => np_result' = NoPage
          /\ p_pc = "all_pages" => (p_pc' = "idle" /\ ap_result' = ApOk(all_items)) ]_vars

C3_Witness ==
    /\ Len(page_log) >= 2
    /\ Last(page_log).ok /\ Last(page_log).has_more /\ Last(page_log).next_cursor = None
    /\ p_start < Len(page_log)
    /\ ap_result.tag = "ok"
    /\ np_result = NoPage

\* C4: when the pages all_pages receives are linked (has_more with a cursor) up
\* to a last one with has_more = false, request k+1 carries the cursor of page k
\* and the initial limit, all_pages returns the items of all pages in order, and
\* the paginator is left terminal (next_page returns no page).
C4_AllPagesConcatenates ==
    LET lo == p_start + 1
        n  == Len(page_log)
    IN  (AllPagesCalled /\ n >= lo /\ \A k \in lo..(n - 1) : IsLinkedPage(page_log[k])) =>
          /\ \A k \in lo..(n - 1) :
                fetch_log[k + 1] = [limit |-> p_limit0, cursor |-> page_log[k].next_cursor]
          /\ IsLinkedPage(page_log[n]) =>
                /\ p_pc = "all_pages"
                /\ all_items = ConcatData(page_log, lo, n)
                /\ p_has_more
                /\ p_params = [limit |-> p_limit0, cursor |-> page_log[n].next_cursor]
          /\ (page_log[n].ok /\ ~page_log[n].has_more) =>
                /\ p_pc = "idle"
                /\ ap_result = ApOk(ConcatData(page_log, lo, n))
                /\ ~p_has_more
                /\ np_result \in {SomePage(page_log[n]), NoPage}

C4_Witness ==
    /\ p_start = 0
    /\ Len(page_log) = 3
    /\ IsLinkedPage(page_log[1]) /\ IsLinkedPage(page_log[2])
    /\ page_log[1].next_cursor # page_log[2].next_cursor
    /\ page_log[3].ok /\ ~page_log[3].has_more
    /\ page_log[1].data = <<1>> /\ page_log[2].data = <<2, 3>> /\ page_log[3].data = <<1>>
    /\ ap_result = ApOk(<<1, 2, 3, 1>>)
    /\ np_result = NoPage

SeenLastPage ==
    \E i \in 1..Len(page_log) : page_log[i].ok /\ ~page_log[i].has_more

\* C5: once a response with has_more = false has been observed, with or without
\* a next_cursor, fetch_page is never invoked again and next_page returns no page.
C5_TerminalIsAbsorbing ==
    [][ SeenLastPage =>
          /\ ~p_has_more /\ ~p_has_more'
          /\ fetch_log' = fetch_log
          /\ page_log' = page_log
          /\ np_result' # np_result => np_result' = NoPage ]_vars

C5_Witness ==
    /\ Len(page_log) >= 1
    /\ Last(page_log).ok /\ ~Last(page_log).has_more /\ Last(page_log).next_cursor # None
    /\ np_result = NoPage

\* The first fetch of the all_pages call that failed, 0 if none did.
FirstFailure ==
    LET failed == { k \in (p_start + 1)..Len(page_log) : ~page_log[k].ok }
    IN  IF failed = {} THEN 0 ELSE CHOOSE k \in failed : \A j \in failed : k <= j

\* C6: when a fetch of all_pages fails, all_pages returns that error and no
\* items (the accumulated ones are dropped), and makes no further fetch.
C6_AllPagesPropagatesError ==
    (AllPagesCalled /\ FirstFailure # 0) =>
        /\ p_pc = "idle"
        /\ ap_result = ApErr(page_log[FirstFailure].err)
        /\ ap_result.items = <<>>
        /\ all_items = <<>>

C6_Witness ==
    /\ AllPagesCalled
    /\ FirstFailure = p_start + 3
    /\ page_log[p_start + 1].data # <<>>
    /\ ap_result.tag = "err"

(***************************************************************************)
(*                            CLAIMS: RETRY                                *)
(***************************************************************************)
\* The classification of section 4.3, stated on its own.
IsTransient(o) ==
    /\ ~o.ok
    /\ \/ o.kind \in {"HttpError", "RateLimitExceeded"}
       \/ o.kind = "ApiError" /\ o.status >= 500 /\ o.status < 600

IsFatal(o) ==
    /\ ~o.ok
    /\ \/ o.kind \in {"InvalidInput", "ParseError"}
       \/ o.kind = "ApiError" /\ o.status < 500

AllTransient(k) == \A i \in 1..k : IsTransient(outcomes[i])

\* C7: an operation whose first invocation fails with a non-retryable error is
\* invoked exactly once, whatever max_retries is; that error is returned and no
\* delay is slept.
C7_FatalErrorInvokedOnce ==
    (Len(outcomes) >= 1 /\ IsFatal(outcomes[1])) =>
        /\ Len(outcomes) = 1
        /\ r_result = outcomes[1]
        /\ sleeps = <<>>

C7_Witness ==
    /\ r_impl = "with_retry"
    /\ r_config.max_retries = MaxRetries
    /\ Len(outcomes) = 1
    /\ outcomes[1].kind = "ApiError" /\ outcomes[1].status = 400
    /\ r_result = outcomes[1]

\* C8: after k <= max_retries retryable failures the loop has not given up (the
\* next invocation is made), and when invocation k + 1 succeeds that success is
\* returned: after exactly k + 1 invocations.
C8_SuccessAfterRetries ==
    LET n == Len(outcomes)
    IN  (n >= 1 /\ n - 1 <= r_config.max_retries /\ AllTransient(n - 1)) =>
          /\ outcomes[n].ok => r_result = outcomes[n]
          /\ (IsTransient(outcomes[n]) /\ n <= r_config.max_retries) =>
                (r_result = Pending /\ Len(sleeps) = n)

C8_Witness ==
    /\ r_impl = "with_retry"
    /\ r_config.max_retries = MaxRetries
    /\ Len(outcomes) = MaxRetries + 1
    /\ AllTransient(MaxRetries)
    /\ outcomes[MaxRetries + 1].ok
    /\ r_result = outcomes[MaxRetries + 1]

\* C9: the operation is never invoked more than max_retries + 1 times; when
\* every invocation fails with a retryable error the loop ends after exactly
\* max_retries + 1 invocations and returns the error of the last one.
C9_RetriesAreBounded ==
    LET n == Len(outcomes)
    IN  /\ n <= r_config.max_retries + 1
        /\ (n = r_config.max_retries + 1 /\ AllTransient(n)) => r_result = outcomes[n]
        /\ (r_result # Pending /\ AllTransient(n)) => n = r_config.max_retries + 1

C9_Witness ==
    /\ r_impl = "with_retry"
    /\ r_config.max_retries = MaxRetries
    /\ Len(outcomes) = MaxRetries + 1
    /\ AllTransient(MaxRetries + 1)
    /\ r_result = outcomes[MaxRetries + 1]
    /\ outcomes[1].kind # outcomes[MaxRetries + 1].kind

\* The schedule of section 4.3: min(initial_delay * backoff_factor^(n-1), max_delay).
ScheduledDelay(config, n) ==
    Min((config.initial_delay_ms * Pow(config.backoff_num, n - 1))
            \div Pow(config.backoff_den, n - 1),
        config.max_delay_ms)

\* C10: with jitter off, the delay slept after the n-th failed attempt is
\* min(initial_delay_ms * backoff_factor^(n-1), max_delay_ms); the first retry
\* waits initial_delay_ms.
C10_DelaySchedule ==
    ~r_config.add_jitter =>
        \A n \in 1..Len(sleeps) : sleeps[n] = ScheduledDelay(r_config, n)

\* Supporting lemmas for C10: RetryMiddleware follows the schedule, and
\* with_retry runs one step ahead of it.
Lemma_MiddlewareFollowsSchedule ==
    (r_impl = "middleware" /\ ~r_config.add_jitter) =>
        \A n \in 1..Len(sleeps) : sleeps[n] = ScheduledDelay(r_config, n)

Lemma_WithRetryOneStepAhead ==
    (r_impl = "with_retry" /\ ~r_config.add_jitter) =>
        \A n \in 1..Len(sleeps) : sleeps[n] = ScheduledDelay(r_config, n + 1)

\* The un-jittered delay of one call: min(initial_delay_ms * backoff_factor^k, max_delay_ms).
BaseDelay(config, k) ==
    Min((config.initial_delay_ms * Pow(config.backoff_num, k)) \div Pow(config.backoff_den, k),
        config.max_delay_ms)

\* The exponent k that the n-th sleep of the running loop is computed with.
ExponentOf(n) == IF r_impl = "with_retry" THEN n ELSE n - 1

\* C11: with add_jitter set, every delay slept is at least the un-jittered base
\* delay min(initial_delay_ms * backoff_factor^k, max_delay_ms) of the same
\* attempt, whatever the random draw is.
C11_JitterNeverBelowBase ==
    r_config.add_jitter =>
        \A n \in 1..Len(sleeps) : sleeps[n] >= BaseDelay(r_config, ExponentOf(n))

\* Supporting lemmas for C11: the jitter of RetryMiddleware stays in
\* [base, 1.5 * base], the jitter of RetryConfig in [0.5 * base, 1.5 * base].
Lemma_MiddlewareJitterAboveBase ==
    (r_impl = "middleware" /\ r_config.add_jitter) =>
        \A n \in 1..Len(sleeps) :
            /\ sleeps[n] >= BaseDelay(r_config, n - 1)
            /\ 2 * sleeps[n] <= 3 * BaseDelay(r_config, n - 1)

Lemma_WithRetryJitterRange ==
    (r_impl = "with_retry" /\ r_config.add_jitter) =>
        \A n \in 1..Len(sleeps) :
            /\ 2 * sleeps[n] + 1 >= BaseDelay(r_config, n)
            /\ 2 * sleeps[n] <= 3 * BaseDelay(r_config, n)

\* The fatal kinds of section 4.3, listed one by one.
IsFatalKind(o) ==
    /\ ~o.ok
    /\ \/ o.kind \in {"ParseError", "InvalidInput", "AuthenticationFailed",
                      "InvalidWebhookSignature", "Unknown"}
       \/ o.kind = "ApiError" /\ ~(o.status >= 500 /\ o.status < 600)

\* C12: an error is retryable exactly when it is an HttpError, a
\* RateLimitExceeded or an ApiError with 500 <= status < 600, and every other
\* kind is fatal: both classifiers agree with that on every error the
\* operation returned, an error the loop retried was retryable, and an error
\* the loop returned while retries were left was fatal.
C12_RetryClassification ==
    \A i \in 1..Len(outcomes) :
        LET o == outcomes[i]
        IN  ~o.ok =>
              /\ is_retryable_error(o) <=> IsTransient(o)
              /\ is_retryable(o) <=> IsTransient(o)
              /\ IsFatalKind(o) <=> ~IsTransient(o)
              /\ i < Len(outcomes) => IsTransient(o)
              /\ (i = Len(outcomes) /\ i <= r_config.max_retries /\ r_result = o)
                    => IsFatalKind(o)
              /\ (i = Len(outcomes) /\ i <= r_config.max_retries /\ r_result = Pending)
                    => IsTransient(o)

C12_Witness ==
    /\ r_impl = "with_retry"
    /\ r_config.max_retries = MaxRetries
    /\ Len(outcomes) = 2
    /\ outcomes[1].kind = "RateLimitExceeded"
    /\ outcomes[2].kind = "AuthenticationFailed"
    /\ r_result = outcomes[2]
    /\ Len(sleeps) = 1

(***************************************************************************)
(*                         CLAIMS: RATE LIMITER                            *)
(*                                                                         *)
(* A record e of acq_log holds the limiter (e.at) and the clock (e.at_now) *)
(* as they were when acquire was called; e.stable says that neither        *)
(* changed before the call decided to return or to sleep.                  *)
(***************************************************************************)
Acquires == { acq_log[i] : i \in 1..Len(acq_log) }

IsOpen(l)      == l.remaining_requests > 0 /\ l.remaining_tokens > 0
IsExhausted(l) == l.remaining_requests = 0 \/ l.remaining_tokens = 0

\* The seconds from n to each of the two reset timestamps that lie after n.
Horizons(l, n) ==
    { ts - n : ts \in { x \in {l.reset_time_requests, l.reset_time_tokens} : x > n } }

MinOf(S) == CHOOSE x \in S : \A y \in S : x <= y

\* C13: a call of acquire on a limiter with remaining_requests > 0 and
\* remaining_tokens > 0 returns Ok at once and sleeps nothing, whatever
\* auto_wait and the reset timestamps are; so does the first call on a freshly
\* constructed limiter.
C13_OpenNeverBlocks ==
    \A e \in Acquires :
        (e.stable /\ IsOpen(e.at)) =>
            /\ e.slept = 0
            /\ e.time_until_reset = NotComputed
            /\ e.result \in {"pending", "Ok"}
            /\ e.result = "Ok" => e.ret_now = e.at_now
            /\ e.result = "pending" =>
                   tasks[e.task].pc \in {"load_remaining_requests", "load_remaining_tokens"}

C13_Witness ==
    /\ ~l_config.auto_wait
    /\ Len(acq_log) = 2
    /\ acq_log[1].at = NewLimiter /\ acq_log[1].stable /\ acq_log[1].result = "Ok"
    /\ acq_log[2].stable /\ acq_log[2].result = "Ok"
    /\ acq_log[2].at.remaining_requests = 50
    /\ acq_log[2].at.reset_time_requests > acq_log[2].at_now
    /\ acq_log[2].at.reset_time_tokens > acq_log[2].at_now

\* C14: with auto_wait off, a call of acquire on a limiter with
\* remaining_requests = 0 or remaining_tokens = 0 fails with RateLimitExceeded,
\* sleeps nothing, and the request it guards is never sent.
C14_ExhaustedFailsFast ==
    ~l_config.auto_wait =>
        \A e \in Acquires :
            (e.stable /\ IsExhausted(e.at)) =>
                /\ e.slept = 0
                /\ e.time_until_reset = NotComputed
                /\ ~e.sent
                /\ e.result \in {"pending", "RateLimitExceeded"}
                /\ e.result = "RateLimitExceeded" => e.ret_now = e.at_now
                /\ e.result = "pending" =>
                       tasks[e.task].pc \in {"load_remaining_requests", "load_remaining_tokens"}

C14_Witness ==
    /\ ~l_config.auto_wait
    /\ Len(acq_log) = 1
    /\ acq_log[1].stable
    /\ acq_log[1].at.remaining_requests > 0
    /\ acq_log[1].at.remaining_tokens = 0
    /\ acq_log[1].at.reset_time_tokens > acq_log[1].at_now
    /\ acq_log[1].result = "RateLimitExceeded"
    /\ tasks[acq_log[1].task].pc = "idle"
    /\ l_calls = MaxCalls

\* C15: with auto_wait on, acquire never returns RateLimitExceeded, in no state
\* of the limiter.
C15_AutoWaitNeverFails ==
    l_config.auto_wait =>
        \A e \in Acquires : e.result # "RateLimitExceeded"

\* Supporting lemma for C15: with auto_wait on, acquire fails exactly on an
\* exhausted limiter none of whose reset timestamps lies in the future.
Lemma_AutoWaitFailsWithoutHorizon ==
    l_config.auto_wait =>
        \A e \in Acquires :
            (e.stable /\ e.result # "pending") =>
                (e.result = "RateLimitExceeded"
                    <=> (IsExhausted(e.at) /\ Horizons(e.at, e.at_now) = {}))

\* C16: with auto_wait on, a call of acquire on an exhausted limiter with a
\* reset timestamp in the future sleeps min(time_until_reset, max_wait_time)
\* seconds and then returns Ok, whatever the counters are by then.
C16_WaitsThenReturnsOk ==
    l_config.auto_wait =>
        \A e \in Acquires :
            (e.stable /\ IsExhausted(e.at) /\ Horizons(e.at, e.at_now) # {}) =>
                LET wait == Min(MinOf(Horizons(e.at, e.at_now)), l_config.max_wait_time)
                    task == tasks[e.task]
                IN  /\ e.result \in {"pending", "Ok"}
                    /\ e.result = "Ok" => (e.slept = wait /\ e.ret_now >= e.at_now + wait)
                    /\ (e.result = "pending" /\ task.pc = "sleeping") =>
                           (e.slept = wait /\ task.wake_at = e.at_now + wait)
                    /\ (e.result = "pending" /\ task.pc # "sleeping") => task.pc \in LoadPcs

C16_Witness ==
    /\ l_config.auto_wait
    /\ l_config.max_wait_time = 1
    /\ Len(acq_log) = 1
    /\ acq_log[1].stable
    /\ acq_log[1].time_until_reset = <<3>>
    /\ acq_log[1].slept = 1
    /\ acq_log[1].result = "Ok"
    /\ tasks[acq_log[1].task].pc = "send"
    /\ rate_limiter.remaining_requests = 0

\* The calls of update_from_response made so far ran one after the other.
Sequential == \A i \in 1..Len(upd_log) : ~upd_log[i].overlapped

AllReturned == \A i \in 1..Len(upd_log) : upd_log[i].done

Present(info, k) == info[SnapshotFields[k]] # <<>>

\* The value of the k-th field in the most recent of the first n snapshots that
\* carried it, or the construction seed.
RECURSIVE LastPresent(_, _)
LastPresent(k, n) ==
    IF n = 0 THEN NewLimiter[LimiterFields[k]]
    ELSE IF Present(upd_log[n].info, k) THEN upd_log[n].info[SnapshotFields[k]][1]
    ELSE LastPresent(k, n - 1)

\* max_requests, remaining_requests, max_tokens, remaining_tokens
Counters == {1, 2, 4, 5}

\* C17: after any sequence of update_from_response calls each counter holds the
\* value of the most recent snapshot that carried its field, or its seed; and a
\* call leaves every counter and timestamp whose field is absent from its
\* snapshot as it found it.
C17_LastPresentValueWins ==
    Sequential =>
        /\ AllReturned =>
             \A k \in Counters : rate_limiter[LimiterFields[k]] = LastPresent(k, Len(upd_log))
        /\ \A i \in 1..Len(upd_log) : \A k \in 1..Len(SnapshotFields) :
             (upd_log[i].done /\ ~Present(upd_log[i].info, k)) =>
                 upd_log[i].final[LimiterFields[k]] = upd_log[i].at[LimiterFields[k]]

C17_Witness ==
    /\ Sequential /\ AllReturned
    /\ Len(upd_log) = 2
    /\ Present(upd_log[1].info, 2) /\ ~Present(upd_log[2].info, 2)
    /\ Present(upd_log[2].info, 5) /\ ~Present(upd_log[1].info, 5)
    /\ rate_limiter.remaining_requests = 50
    /\ rate_limiter.remaining_tokens = 0
    /\ rate_limiter.max_tokens = 0

\* The limiter holds what the call u stored, in all six fields.
HoldsSnapshotOf(u) ==
    /\ \A k \in 1..5 : rate_limiter[LimiterFields[k]] = u.info[SnapshotFields[k]][1]
    /\ rate_limiter.reset_time_tokens = u.tok_now + u.info.reset_tokens[1]

FullyPopulated(info) == \A k \in 1..Len(SnapshotFields) : Present(info, k)

\* C18: when two update_from_response calls with fully populated snapshots ran
\* concurrently and both have returned, the six fields of the limiter all come
\* from one of the two snapshots.
C18_LastSnapshotWinsWhole ==
    ( /\ Len(upd_log) = 2
      /\ AllReturned
      /\ upd_log[1].overlapped /\ upd_log[2].overlapped
      /\ FullyPopulated(upd_log[1].info) /\ FullyPopulated(upd_log[2].info) )
    => (HoldsSnapshotOf(upd_log[1]) \/ HoldsSnapshotOf(upd_log[2]))

\* Supporting lemma for C18: each field on its own comes from one of the two.
Lemma_EachFieldFromOneSnapshot ==
    ( /\ Len(upd_log) = 2
      /\ AllReturned
      /\ FullyPopulated(upd_log[1].info) /\ FullyPopulated(upd_log[2].info) )
    => /\ \A k \in 1..5 : \E i \in 1..2 :
            rate_limiter[LimiterFields[k]] = upd_log[i].info[SnapshotFields[k]][1]
       /\ \E i \in 1..2 :
            rate_limiter.reset_time_tokens = upd_log[i].tok_now + upd_log[i].info.reset_tokens[1]

\* Calls i and i + 1 apply the same snapshot, one right after the other.
AppliedTwice(i) ==
    /\ upd_log[i].done /\ upd_log[i + 1].done
    /\ ~upd_log[i].overlapped /\ ~upd_log[i + 1].overlapped
    /\ upd_log[i].info = upd_log[i + 1].info

\* C19: applying the same snapshot twice in a row leaves all six fields of the
\* limiter as one application left them, also when the clock advances between
\* the two.
C19_UpdateIsIdempotent ==
    \A i \in 1..(Len(upd_log) - 1) :
        AppliedTwice(i) => upd_log[i + 1].final = upd_log[i].final

\* Supporting lemmas for C19: the second application changes nothing but
\* reset_time_tokens, and nothing at all when the clock read is the same.
Lemma_IdempotentButResetTokens ==
    \A i \in 1..(Len(upd_log) - 1) :
        AppliedTwice(i) =>
            \A k \in 1..5 :
                upd_log[i + 1].final[LimiterFields[k]] = upd_log[i].final[LimiterFields[k]]

Lemma_IdempotentAtOneInstant ==
    \A i \in 1..(Len(upd_log) - 1) :
        (AppliedTwice(i) /\ upd_log[i].tok_now = upd_log[i + 1].tok_now) =>
            upd_log[i + 1].final = upd_log[i].final

\* C20: time_until_reset is the smallest of reset_time_requests - now and
\* reset_time_tokens - now over the timestamps strictly greater than now, and
\* None when neither timestamp is greater than now.
C20_TimeUntilReset ==
    \A e \in Acquires :
        (e.stable /\ e.time_until_reset # NotComputed) =>
            e.time_until_reset =
                IF Horizons(e.at, e.at_now) = {} THEN <<>>
                ELSE <<MinOf(Horizons(e.at, e.at_now))>>

C20_Witness ==
    /\ Len(acq_log) = 1
    /\ acq_log[1].stable
    /\ acq_log[1].at.reset_time_requests > acq_log[1].at.reset_time_tokens
    /\ acq_log[1].at.reset_time_tokens > acq_log[1].at_now
    /\ acq_log[1].at_now > StartClock
    /\ acq_log[1].time_until_reset = <<acq_log[1].at.reset_time_tokens - acq_log[1].at_now>>

(***************************************************************************)
(*                  CLAIMS: STREAMING DECODER, END OF STREAM               *)
(***************************************************************************)
\* Where the "data: [DONE]" lines received so far start.
SentinelStarts ==
    { lines(Delivered)[i].start :
        i \in { j \in 1..Len(lines(Delivered)) : lines(Delivered)[j].text = SentinelLine } }

\* C23: a "data: [DONE]" line ends the sequence: it is never surfaced as an
\* item or as an error, and no line received after it is surfaced as an item.
\* (Stated for runs in which every data line arrives in a read of its own.)
C23_SentinelEndsStream ==
    (s_aligned /\ CleanRun) =>
        \A i \in 1..Len(s_items) : \A at \in SentinelStarts : s_items[i].at < at

\* Supporting lemma for C23: the sentinel line itself is never surfaced.
Lemma_SentinelNeverSurfaced ==
    (s_aligned /\ CleanRun) =>
        \A i \in 1..Len(s_items) : s_items[i].at \notin SentinelStarts

TransportHeld == \A i \in 1..Len(s_items) : s_items[i].kind # "http_error"

\* C24: a read that is not valid UTF-8 produces a ParseError item and ends the
\* sequence: that item is the last one, no later read produces an item.
C24_InvalidUtf8EndsStream ==
    TransportHeld =>
        \A i \in 1..Len(s_items) :
            s_items[i].kind = "utf8_error" => i = Len(s_items)

\* Supporting lemma for C24: the ParseError item is produced, by exactly the
\* runs that read a byte that is not valid UTF-8.
Lemma_InvalidUtf8YieldsParseError ==
    ~from_utf8_ok(Delivered) <=> \E i \in 1..Len(s_items) : s_items[i].kind = "utf8_error"


(***************************************************************************)
(*                  CLAIMS: PAGINATOR, ERRORS AND TERMINATION              *)
(***************************************************************************)
\* C28: when fetch_page returns an error, next_page returns that error and
\* leaves cursor, limit and has_more as they were: the paginator is not
\* terminal, and the next invocation of fetch_page carries the same parameters.
C28_FetchErrorLeavesPaginator ==
    [][ Len(page_log') > Len(page_log) =>
          /\ ~Last(page_log').ok =>
                /\ np_result' = ErrPage(Last(page_log').err)
                /\ p_params' = p_params
                /\ p_params'.limit = p_limit0
                /\ p_has_more /\ p_has_more'
          /\ (Len(page_log) > 0 /\ ~Last(page_log).ok) =>
                Last(fetch_log') = Last(fetch_log) ]_vars

C28_Witness ==
    /\ Len(page_log) = 3
    /\ IsLinkedPage(page_log[1])
    /\ ~page_log[2].ok
    /\ page_log[3].ok
    /\ fetch_log[2] = [limit |-> p_limit0, cursor |-> page_log[1].next_cursor]
    /\ fetch_log[3] = fetch_log[2]
    /\ np_result = SomePage(page_log[3])

\* A result that ends all_pages: an error, a page with has_more = false or a
\* page without next_cursor.
IsFinalResult(r) == ~r.ok \/ ~r.has_more \/ r.next_cursor = None

\* The position, among the fetches of the all_pages call, of the first result
\* that ends it; 0 if there is none yet.
FirstFinal(log) ==
    LET final == { k \in (p_start + 1)..Len(log) : IsFinalResult(log[k]) }
    IN  IF final = {} THEN 0 ELSE (CHOOSE k \in final : \A j \in final : k <= j) - p_start

\* C29: all_pages terminates once fetch_page has returned an error, a page with
\* has_more = false or a page without next_cursor; it has then invoked
\* fetch_page as many times as the position of the first such result, and it
\* invokes it no more after that result.
C29_AllPagesTerminates ==
    /\ [][ p_pc = "all_pages" =>
             /\ FirstFinal(page_log) # 0 => fetch_log' = fetch_log
             /\ p_pc' = "idle" =>
                   /\ ap_result' # ApPending
                   /\ Len(fetch_log') - p_start = FirstFinal(page_log') ]_vars
    /\ (p_pc = "all_pages" /\ FirstFinal(page_log) # 0) ~> (p_pc = "idle")

C29_Witness ==
    /\ p_pc = "idle"
    /\ ap_result.tag = "ok"
    /\ Len(fetch_log) - p_start = 2
    /\ FirstFinal(page_log) = 2
    /\ page_log[p_start + 2].ok /\ page_log[p_start + 2].has_more
    /\ page_log[p_start + 1].data # <<>>

\* all_pages runs to its end: every turn of its loop is eventually taken.
FairSpecPager == PagerInit /\ [][NextPager]_vars /\ WF_vars(AllPagesIter)


(***************************************************************************)
(*                   CLAIMS: RETRY, WHERE THE DELAYS ARE                   *)
(***************************************************************************)
\* The retry classification of the loop that runs.
Retried(error) ==
    IF r_impl = "with_retry" THEN is_retryable_error(error) ELSE is_retryable(error)

\* C30: the retry loop sleeps only between two consecutive invocations of the
\* operation: when it has returned, the delays slept are one fewer than the
\* invocations; the k-th delay follows the k-th invocation, which failed with
\* a retryable error and was not the last allowed one; nothing is slept after
\* the invocation whose result is returned.
C30_SleepsOnlyBetweenAttempts ==
    /\ r_result # Pending => Len(sleeps) = Len(outcomes) - 1
    /\ r_result = Pending => Len(sleeps) = Len(outcomes)
    /\ \A k \in 1..Len(sleeps) :
          /\ ~outcomes[k].ok
          /\ Retried(outcomes[k])
          /\ k <= r_config.max_retries
          /\ r_result # outcomes[k]

C30_Witness ==
    /\ r_impl = "with_retry"
    /\ Len(outcomes) = 3
    /\ Len(sleeps) = 2
    /\ r_result = outcomes[3]
    /\ r_result.kind = "ApiError" /\ r_result.status < 500
    /\ r_config.max_retries = MaxRetries


(***************************************************************************)
(*                CLAIMS: RATE LIMITER, CONCURRENT ACQUIRE                 *)
(***************************************************************************)
\* The places of a task inside acquire.
AcquirePcs == LoadPcs \cup {"sleeping"}

\* Task t takes a step of acquire (its call included).
AcquireStep(t) ==
    /\ tasks'[t] # tasks[t]
    /\ tasks[t].pc \in AcquirePcs \/ tasks'[t].pc \in AcquirePcs

\* C26: acquire never writes the limiter: each of its steps leaves the six
\* counters and timestamps as they are (no local decrement).  So every acquire,
\* concurrent ones included, that finds remaining_requests > 0 and
\* remaining_tokens > 0 returns Ok without a sleep, and a task inside
\* is_rate_limited can always take its next step, whatever the others do.
C26_AcquireNeverWrites ==
    /\ [][ \A t \in Running : AcquireStep(t) => rate_limiter' = rate_limiter ]_vars
    /\ [](\A e \in Acquires :
             (e.stable /\ IsOpen(e.at)) => (e.result \in {"pending", "Ok"} /\ e.slept = 0))
    /\ [](\A t \in Running :
             /\ tasks[t].pc = "load_remaining_requests" => ENABLED LoadRemainingRequests(t)
             /\ tasks[t].pc = "load_remaining_tokens" => ENABLED LoadRemainingTokens(t))

C26_Witness ==
    /\ Running = Tasks
    /\ tasks["t1"].pc = "load_remaining_tokens"
    /\ acq_log[tasks["t1"].acq].result = "pending"
    /\ tasks["t2"].pc = "send"
    /\ acq_log[tasks["t2"].acq].result = "Ok"
    /\ acq_log[tasks["t2"].acq].stable
    /\ rate_limiter = NewLimiter


(***************************************************************************)
(*                            CLAIMS: CLIENT                               *)
(***************************************************************************)
\* The attempts of the current call, in order.
Sends == SelectSeq(c_log, LAMBDA e : e.ev = "send")

\* The current call has returned after an attempt that received an HTTP response.
ReturnedAfterResponse == c_pc = "done" /\ Sends # <<>> /\ Last(Sends).reply.sent

\* C21: a call that received an HTTP response, a 429 or another non-2xx one
\* included, yields the rate-limit snapshot parsed from that response's
\* headers; a 429 yields RateLimitExceeded together with that snapshot.
C21_SnapshotWithEveryResponse ==
    ReturnedAfterResponse =>
        /\ c_result.info = <<from_headers(Last(Sends).reply.headers)>>
        /\ Last(Sends).reply.status = 429 => c_result.kind = "RateLimitExceeded"

\* What does hold: an Ok result has the snapshot of its response's headers, a
\* 429 gives RateLimitExceeded, and an error has no snapshot at all.
Lemma_SnapshotOnlyWithOk ==
    ReturnedAfterResponse =>
        /\ c_result.ok => c_result.info = <<from_headers(Last(Sends).reply.headers)>>
        /\ ~c_result.ok => c_result.info = <<>>
        /\ Last(Sends).reply.status = 429 =>
              /\ c_result.kind = "RateLimitExceeded"
              /\ c_result.text = Display(from_headers(Last(Sends).reply.headers))

\* C22: a call that ends in an error (no response, 429, API error, parse error,
\* or a refusal by acquire) leaves the six counters and timestamps of the rate
\* limiter as they were before the call; only a call that returns Ok writes
\* them, and not before it returns.
C22_FailedCallLeavesLimiter ==
    /\ c_pc = "send" => c_limiter = c_limiter0
    /\ (c_pc = "done" /\ ~c_result.ok) => c_limiter = c_limiter0
    /\ c_limiter # c_limiter0 => (c_pc = "done" /\ c_result.ok)

C22_Witness ==
    /\ c_config.rate_limiter
    /\ c_calls = 2
    /\ c_pc = "done"
    /\ c_result.kind = "ApiError"
    /\ Len(Sends) = 3
    /\ Sends[1].result.kind = "HttpError"
    /\ Sends[2].result.kind = "RateLimitExceeded"
    /\ c_limiter0 # NewLimiter
    /\ c_limiter = c_limiter0

\* str::trim_end_matches('/') and str::trim_start_matches('/')
RECURSIVE TrimEnd(_)
TrimEnd(s) == IF ends_with_slash(s) THEN TrimEnd(SubSeq(s, 1, Len(s) - 1)) ELSE s

RECURSIVE TrimStart(_)
TrimStart(s) == IF starts_with_slash(s) THEN TrimStart(Tail(s)) ELSE s

\* build_url has run in the current call and returned a URL.
UrlBuilt == c_calls > 0 /\ c_url.ok

\* C25: whether or not the base URL ends with a slash and the endpoint begins
\* with one, the URL build_url returns has exactly one slash between the two.
C25_SingleSlashJoin ==
    UrlBuilt => c_url.url = TrimEnd(c_base) \o <<"/">> \o TrimStart(c_endpoint)

\* What does hold: one slash unless both parts bring their own.
Lemma_SingleSlashUnlessBoth ==
    (UrlBuilt /\ ~(ends_with_slash(c_base) /\ starts_with_slash(c_endpoint))) =>
        c_url.url = TrimEnd(c_base) \o <<"/">> \o TrimStart(c_endpoint)

\* The positions of the events of one kind in the log of the current call.
EventsAt(ev) == { i \in 1..Len(c_log) : c_log[i].ev = ev }

\* C27: on a client with a rate limiter and a retry configuration, a call
\* invokes acquire exactly once, before the first attempt and not again before
\* a retry; it invokes update_from_response at most once, after the retry loop,
\* with the snapshot of the successful attempt that ended the loop; no failed
\* attempt is followed by an update.
C27_AcquireOnceUpdateOnce ==
    (c_config.rate_limiter /\ c_config.retry_config # <<>> /\ c_calls > 0) =>
        /\ EventsAt("acquire") = {1}
        /\ Cardinality(EventsAt("update")) <= 1
        /\ \A i \in EventsAt("update") :
              /\ i = Len(c_log)
              /\ c_pc = "done"
              /\ c_log[i - 1].ev = "send"
              /\ c_log[i - 1].result.ok
              /\ c_log[i].info = c_log[i - 1].result.info[1]
              /\ c_limiter = update_from_response(c_limiter0, c_log[i].info, c_now)
        /\ \A i \in EventsAt("send") :
              /\ ~c_log[i].result.ok => (i = Len(c_log) \/ c_log[i + 1].ev = "send")
              /\ c_log[i].result.ok => (i + 1 = Len(c_log) /\ c_log[i + 1].ev = "update")

C27_Witness ==
    /\ c_config.rate_limiter
    /\ c_config.retry_config # <<>>
    /\ c_pc = "done"
    /\ Len(Sends) = 3
    /\ Sends[1].reply.status = 429 /\ Sends[1].reply.headers = HdrSpent
    /\ Sends[2].reply.status = 500
    /\ Sends[3].result.ok
    /\ Last(c_log) = UpdateEvent(from_headers(HdrFull))
    /\ c_limiter.remaining_requests = 50
    /\ c_limiter0.remaining_requests = 1

=============================================================================
